---------------------------- MODULE Spec2Model ----------------------------
(***************************************************************************)
(* A model of jabberwocky, a partial offline PyPI mirror builder.          *)
(*                                                                         *)
(*   SpecResolve : pypi.resolve(), the breadth-first dependency closure    *)
(*                 with the needs_wheels classification.                   *)
(*   FairResolve : SpecResolve with the fairness of the event loop.        *)
(*   SpecUpdate  : updater.run_update(), run after run on one mirror.      *)
(*   SpecDownload: downloader.download_wheels(), call after call on one    *)
(*                 files/ directory, with its concurrent _download_one.    *)
(*   SpecDownloadPool : download_wheels with more pending wheels than      *)
(*                 permits; FairDownloadPool adds the fairness of the      *)
(*                 event loop.                                             *)
(*   SpecIndex   : index.build_index() on a list of packages and a files/. *)
(*   SpecUpdateForeign : SpecUpdate on a mirror holding a wheel whose      *)
(*                 filename does not parse.                                *)
(*   SpecDiff    : updater.compute_diff and write_diff_package on a pair   *)
(*                 of directory trees.                                     *)
(*   SpecBuild   : cli.build(), build after build into one output_dir.     *)
(*   SpecClient  : PyPIClient, its fetches gathered under one semaphore.   *)
(*   SpecServer  : server.MirrorHandler.do_GET, request after request.     *)
(*   SpecTags    : WheelFile.matches_python and matches_platform.          *)
(*   SpecMarker  : pypi._dep_reachable on a marker and a target matrix.    *)
(*                                                                         *)
(* Names are sequences of one-character strings, so that                   *)
(* canonicalize_name is computed and not assumed.                          *)
(***************************************************************************)
EXTENDS Integers, Sequences, FiniteSets, TLC

VARIABLES
    \* ---- pypi.resolve() ----
    packages,       \* the wishlist handed to resolve()
    platforms,      \* the target platform tags handed to resolve()
    resolved,       \* dict canonical name -> ResolvedPackage
    queue,          \* list of (name, version_or_None, needs_wheels)
    in_flight,      \* set of canonical names being fetched
    batch,          \* list of (canonical, ver, needs_wheels) of this round
    dep_meta,       \* list of (canonical, needs_wheels) of this round
    rpc,            \* position of resolve() in its code
    idx,            \* index of the for loop resolve() is in
    \* ---- what the registry has answered so far (history) ----
    requires_dist,  \* canonical name -> the requirements fetch_dependencies returned
    no_release,     \* canonical names fetch_release returned None for
    deps_failed,    \* canonical names whose fetch_dependencies request failed
    frontier_true,  \* canonical names put on the frontier with needs_wheels = True
    \* ---- updater.run_update() ----
    mirror,         \* the live mirror directory (a tree, or absent)
    staging,        \* the staging directory of the running update
    archives,       \* archives/: timestamp -> tree
    diffs,          \* diffs/: timestamp -> diff package
    timestamp,      \* _now_ts() of the running update
    u_resolved,     \* the closure resolve_fn returned
    all_pkgs,       \* the package list handed to build_index_fn
    diff,           \* the dict compute_diff returned
    upc,            \* position of run_update in its code
    runs,           \* number of run_update calls started
    \* ---- history of the running update ----
    pre_mirror,     \* the mirror when run_update was called
    prev_resolved,  \* the closure of the run before, when that run completed
    staged,         \* the staging tree when apply_update was called
    failed_at,      \* the position at which the run failed, or None
    \* ---- downloader.download_wheels() ----
    d_resolved,     \* the closure handed to download_wheels (its values)
    d_pyvers,       \* the target runtime versions
    d_plats,        \* the target platform tags
    fs,             \* the file system: path -> bytes
    pending,        \* list of the wheels to download
    task,           \* the _download_one coroutines, one per pending wheel:
                    \* position, slot, and how the download ended (history)
    sem,            \* free permits of the semaphore
    slot_queue,     \* the queue of free progress slots
    dpc,            \* position of download_wheels in its code
    calls,          \* number of download_wheels calls started
    \* ---- history of the running download_wheels call ----
    fs_at_start,    \* the file system when download_wheels was called
    requested,      \* filenames _download_one has sent a GET for
    \* ---- index.build_index() ----
    i_pkgs,         \* the packages handed to build_index
    i_files,        \* <output>/files/: filename -> bytes
    i_base_url,     \* the base_url handed to build_index
    simple,         \* <output>/simple/: directory -> index.json
    ipc,            \* position of build_index in its code
    \* ---- pypi.PyPIClient ----
    c_concurrency,  \* the concurrency the client was constructed with
    _sem,           \* free permits of the client's semaphore
    fetches,        \* the fetch coroutines of the running asyncio.gather
    cpc,            \* position of the BFS round that uses the client
    \* ---- server.MirrorHandler ----
    s_fs,           \* the files on the server's disk: absolute path -> bytes
    s_path,         \* self.path of the last request
    s_response,     \* the response to it: status and body
    \* ---- pypi.WheelFile: the tag engine ----
    t_wheel,        \* a WheelFile: python_tags, abi_tags, platform_tags
    t_python_version,   \* a target runtime version, "M.m"
    t_platform,     \* a target platform tag
    t_matches_python,   \* what matches_python returned, once called
    t_matches_platform, \* what matches_platform returned, once called
    \* ---- pypi._dep_reachable ----
    m_marker,       \* the marker of a requirement, or none
    m_python_versions,  \* the target runtime versions
    m_platforms,    \* the target platform tags
    m_reachable     \* what _dep_reachable returned, once called

resolveVars == <<packages, platforms, resolved, queue, in_flight, batch,
                 dep_meta, rpc, idx, requires_dist, no_release, deps_failed,
                 frontier_true>>

updateVars == <<mirror, staging, archives, diffs, timestamp, u_resolved,
                all_pkgs, diff, upc, runs, pre_mirror, prev_resolved, staged,
                failed_at>>

downloadVars == <<d_resolved, d_pyvers, d_plats, fs, pending, task, sem,
                  slot_queue, dpc, calls, fs_at_start, requested>>

indexVars == <<i_pkgs, i_files, i_base_url, simple, ipc>>

clientVars == <<c_concurrency, _sem, fetches, cpc>>

serverVars == <<s_fs, s_path, s_response>>

tagVars == <<t_wheel, t_python_version, t_platform, t_matches_python,
             t_matches_platform>>

markerVars == <<m_marker, m_python_versions, m_platforms, m_reachable>>

vars == <<resolveVars, updateVars, downloadVars, indexVars, clientVars,
          serverVars, tagVars, markerVars>>

\* What a step of resolve(), of run_update and of download_wheels leaves
\* alone.
notResolveVars ==
    <<updateVars, downloadVars, indexVars, clientVars, serverVars, tagVars, markerVars>>
notUpdateVars ==
    <<resolveVars, downloadVars, indexVars, clientVars, serverVars, tagVars, markerVars>>
notDownloadVars ==
    <<resolveVars, updateVars, indexVars, clientVars, serverVars, tagVars, markerVars>>
notIndexVars ==
    <<resolveVars, updateVars, downloadVars, clientVars, serverVars, tagVars, markerVars>>
notClientVars ==
    <<resolveVars, updateVars, downloadVars, indexVars, serverVars, tagVars, markerVars>>
notServerVars ==
    <<resolveVars, updateVars, downloadVars, indexVars, clientVars, tagVars, markerVars>>
notTagVars ==
    <<resolveVars, updateVars, downloadVars, indexVars, clientVars, serverVars, markerVars>>
notMarkerVars ==
    <<resolveVars, updateVars, downloadVars, indexVars, clientVars, serverVars, tagVars>>

(***************************************************************************)
(* Bounds of the model.                                                    *)
(***************************************************************************)
MaxRoots == 1       \* longest wishlist
MaxDeps == 2        \* longest requires_dist list of one release
MaxReqs == 4        \* requirements in the whole registry
MaxRuns == 2        \* run_update calls on one mirror
MaxCalls == 2       \* download_wheels calls on one output directory
NChunks == 1        \* chunks of a response body
MaxFetch == 3       \* fetches of one asyncio.gather of a BFS round
MaxTargets == 2     \* longest list of target versions, and of target platforms

(***************************************************************************)
(* Names and packaging.utils.canonicalize_name.                            *)
(***************************************************************************)
Separators == {"-", "_", "."}

Lower(c) ==
    CASE c = "A" -> "a"
      [] c = "B" -> "b"
      [] c = "C" -> "c"
      [] c = "D" -> "d"
      [] OTHER -> c

RECURSIVE DropSeparators(_)
DropSeparators(s) ==
    IF s # <<>> /\ Head(s) \in Separators THEN DropSeparators(Tail(s)) ELSE s

\* re.sub(r"[-_.]+", "-", name).lower()
RECURSIVE canonicalize_name(_)
canonicalize_name(s) ==
    IF s = <<>> THEN <<>>
    ELSE IF Head(s) \in Separators
         THEN <<"-">> \o canonicalize_name(DropSeparators(s))
         ELSE <<Lower(Head(s))>> \o canonicalize_name(Tail(s))

\* The projects of the registry, in the order the model introduces them, and
\* the names the wishlist and the requirements are written with.
Projects == << <<"a", "-", "b">>, <<"c">>, <<"d">>, <<"e">> >>

RawNames == { Projects[i] : i \in 1..Len(Projects) } \cup { <<"A", "_", ".", "b">> }

CanonicalNames == { canonicalize_name(n) : n \in RawNames }

(***************************************************************************)
(* Versions, markers and requirements.                                     *)
(***************************************************************************)
None == "None"
Latest == "2.0"
Versions == {"1.0", "2.0"}

\* A requirement's marker: none, or  sys_platform == '<m>'.
NoMarker == "none"
Markers == {NoMarker, "win32"}

TargetLists == { <<"linux_x86_64">>, <<"linux_x86_64", "win_amd64">> }

\* A requirement: name, marker, and the version of its == specifier (or None).
Requirements ==
    [name : RawNames, marker : Markers, pin : {None}] \cup
    { [name |-> Projects[2], marker |-> NoMarker, pin |-> "1.0"] }

SeqsUpTo(S, n) == UNION { [1..k -> S] : k \in 0..n }

Range(s) == { s[i] : i \in 1..Len(s) }

\* pypi.py:160-169: the sys_platform values of the target platforms
SysPlatform(p) ==
    CASE p = "linux_x86_64" -> "linux"
      [] p = "win_amd64" -> "win32"
      [] p = "macosx_11_0_arm64" -> "darwin"
      [] OTHER -> p

python_versions == <<"3.12">>

\* Marker.evaluate in one marker environment.  A marker is written
\* sys_platform == '<marker>'  as <marker>; the other forms are
\* python_version < '3.12', its conjunction with sys_platform == 'win32',
\* os_name == 'nt', and two markers the evaluator raises on: in every
\* environment, and in the environments of Windows only (false elsewhere).
MarkerEvaluate(marker, env) ==
    CASE marker = "python_version < '3.12'" -> env.python_version = "3.11"
      [] marker = "sys_platform == 'win32' and python_version < '3.12'" ->
            env.sys_platform = "win32" /\ env.python_version = "3.11"
      [] marker = "os_name == 'nt'" -> env.os_name = "nt"
      [] marker \in {"raises", "raises on nt"} -> FALSE
      [] OTHER -> env.sys_platform = marker

MarkerRaises(marker, env) ==
    CASE marker = "raises" -> TRUE
      [] marker = "raises on nt" -> env.os_name = "nt"
      [] OTHER -> FALSE

\* pypi.py:172-190: the marker environment of one target
MarkerEnvironment(pyver, sys_platform) ==
    [python_version |-> pyver, sys_platform |-> sys_platform,
     os_name |-> IF sys_platform = "win32" THEN "nt" ELSE "posix"]

\* The loop with an exception of the evaluator taken as false.
_eval_marker_for_any_targetExceptFalse(marker, pyvers, plats) ==
    LET sys_platforms == { SysPlatform(plats[i]) : i \in 1..Len(plats) }
    IN  \E v \in Range(pyvers), sp \in sys_platforms :
            MarkerEvaluate(marker, MarkerEnvironment(v, sp))

\* pypi.py:149-195: the first environment in which the marker is true, or
\* the evaluator raises, ends the loop with True.
_eval_marker_for_any_target(marker, pyvers, plats) ==
    LET sys_platforms == { SysPlatform(plats[i]) : i \in 1..Len(plats) }
    IN  \E v \in Range(pyvers), sp \in sys_platforms :
            \/ MarkerRaises(marker, MarkerEnvironment(v, sp))
            \/ MarkerEvaluate(marker, MarkerEnvironment(v, sp))

_dep_reachable(req, pyvers, plats) ==
    IF req.marker = NoMarker THEN TRUE
    ELSE _eval_marker_for_any_target(req.marker, pyvers, plats)

_extract_pin(req) == req.pin

(***************************************************************************)
(* The registry: what fetch_release answers.  A release that exists has    *)
(* the pinned version, or the latest one when no version is asked for.     *)
(***************************************************************************)
ReleaseVersion(ver) == IF ver = None THEN Latest ELSE ver

ResolvedPackage(canonical, version, needs_wheels) ==
    [name |-> canonical, version |-> version, needs_wheels |-> needs_wheels]

(***************************************************************************)
(* resolve(): initial state (pypi.py:294-297).                             *)
(***************************************************************************)
Wishlists == SeqsUpTo(RawNames, MaxRoots) \ {<<>>}

\* The registry is explored up to the names of its projects: a list of names
\* mentions a project only after the projects before it in Projects.
ProjectIndex(canonical) ==
    CHOOSE i \in 1..Len(Projects) : Projects[i] = canonical

InOrder(names, known) ==
    \A i \in 1..Len(names) :
        LET seen == known \cup { canonicalize_name(names[j]) : j \in 1..(i - 1) }
        IN  \A k \in 1..(ProjectIndex(canonicalize_name(names[i])) - 1) :
                Projects[k] \in seen

Mentioned ==
    { canonicalize_name(packages[i]) : i \in 1..Len(packages) } \cup
    UNION { { canonicalize_name(requires_dist[p][i].name) :
                i \in 1..Len(requires_dist[p]) } : p \in DOMAIN requires_dist }

RECURSIVE SumLen(_, _)
SumLen(f, S) ==
    IF S = {} THEN 0
    ELSE LET x == CHOOSE y \in S : TRUE IN Len(f[x]) + SumLen(f, S \ {x})

Revealed == SumLen(requires_dist, DOMAIN requires_dist)

\* No update is running.
\* build_index has not been called.
IdleMarker ==
    /\ m_marker = "none"
    /\ m_python_versions = <<>>
    /\ m_platforms = <<>>
    /\ m_reachable = {}

IdleTags ==
    /\ t_wheel = <<>>
    /\ t_python_version = <<>>
    /\ t_platform = <<>>
    /\ t_matches_python = {}
    /\ t_matches_platform = {}

IdleServer ==
    /\ s_fs = <<>>
    /\ s_path = <<>>
    /\ s_response = [status |-> 0, body |-> {}]

IdleClient ==
    /\ c_concurrency = 1
    /\ _sem = 1
    /\ fetches = <<>>
    /\ cpc = "idle"

IdleIndex ==
    /\ i_pkgs = <<>>
    /\ i_files = <<>>
    /\ i_base_url = ""
    /\ simple = <<>>
    /\ ipc = "idle"

\* download_wheels has not been called.
IdleDownload ==
    /\ d_resolved = <<>>
    /\ d_pyvers = <<>>
    /\ d_plats = <<>>
    /\ fs = <<>>
    /\ pending = <<>>
    /\ task = <<>>
    /\ sem = 0
    /\ slot_queue = <<>>
    /\ dpc = "idle"
    /\ calls = 0
    /\ fs_at_start = <<>>
    /\ requested = {}

IdleUpdate ==
    /\ mirror = [exists |-> FALSE, files |-> <<>>, simple |-> <<>>]
    /\ staging = [exists |-> FALSE, files |-> <<>>, simple |-> <<>>]
    /\ archives = <<>>
    /\ diffs = <<>>
    /\ timestamp = 0
    /\ u_resolved = <<>>
    /\ all_pkgs = <<>>
    /\ diff = [added_wheels |-> {}, removed_wheels |-> {},
               changed_index |-> {}, added_index |-> {}]
    /\ upc = "idle"
    /\ runs = 0
    /\ pre_mirror = [exists |-> FALSE, files |-> <<>>, simple |-> <<>>]
    /\ prev_resolved = {}
    /\ staged = [exists |-> FALSE, files |-> <<>>, simple |-> <<>>]
    /\ failed_at = "None"

InitResolve ==
    /\ IdleUpdate
    /\ IdleDownload
    /\ IdleIndex
    /\ IdleClient
    /\ IdleServer
    /\ IdleTags
    /\ IdleMarker
    /\ packages \in { w \in Wishlists : InOrder([i \in 1..Len(w) |-> w[i]], {}) }
    /\ platforms \in TargetLists
    /\ resolved = <<>>
    /\ queue = [i \in 1..Len(packages) |->
                   [name |-> packages[i], ver |-> None, needs_wheels |-> TRUE]]
    /\ in_flight = {}
    /\ batch = <<>>
    /\ dep_meta = <<>>
    /\ rpc = "drain"
    /\ idx = 0
    /\ requires_dist = <<>>
    /\ no_release = {}
    /\ deps_failed = {}
    /\ frontier_true = { canonicalize_name(packages[i]) : i \in 1..Len(packages) }

(***************************************************************************)
(* The inner while loop, one iteration (pypi.py:304-314).                  *)
(***************************************************************************)
\* Mutant: the names being fetched are not looked at.
AlreadySeenIgnoringInFlight(canonical) ==
    canonical \in DOMAIN resolved

\* Mutant: the filter of the drain left out.
AlreadySeenNever(canonical) == FALSE

AlreadySeen(canonical) ==
    canonical \in DOMAIN resolved \/ canonical \in in_flight

Upgrade(res, canonical) == [res EXCEPT ![canonical].needs_wheels = TRUE]

Pop ==
    /\ rpc = "drain"
    /\ queue # <<>>
    /\ LET item == queue[Len(queue)]
           canonical == canonicalize_name(item.name)
       IN  /\ queue' = SubSeq(queue, 1, Len(queue) - 1)
           /\ IF AlreadySeen(canonical)
              THEN /\ resolved' =
                        IF canonical \in DOMAIN resolved /\ item.needs_wheels
                        THEN Upgrade(resolved, canonical)
                        ELSE resolved
                   /\ UNCHANGED <<in_flight, batch>>
              ELSE /\ in_flight' = in_flight \cup {canonical}
                   /\ batch' = Append(batch,
                        [name |-> canonical, ver |-> item.ver,
                         needs_wheels |-> item.needs_wheels])
                   /\ UNCHANGED resolved
    /\ UNCHANGED <<packages, platforms, dep_meta, rpc, idx,
                   requires_dist, no_release, deps_failed, frontier_true>>
    /\ UNCHANGED notResolveVars

\* pypi.py:316-322: with nothing to fetch the outer loop is left, otherwise
\* the release fetches of the round are awaited.
GatherReleases ==
    /\ rpc = "drain"
    /\ queue = <<>>
    /\ rpc' = IF batch = <<>> THEN "done" ELSE "record"
    /\ idx' = 1
    /\ UNCHANGED <<packages, platforms, resolved, queue, in_flight, batch,
                   dep_meta, requires_dist, no_release, deps_failed, frontier_true>>
    /\ UNCHANGED notResolveVars

(***************************************************************************)
(* The loop over the releases (pypi.py:327-346), one iteration.  The       *)
(* answer of the registry does not depend on the state of resolve(), so it *)
(* is drawn when the loop reaches it.                                      *)
(***************************************************************************)
Record(res, canonical, version, needs_wheels) ==
    IF canonical \in DOMAIN res
    THEN [res EXCEPT ![canonical] = ResolvedPackage(canonical, version, needs_wheels)]
    ELSE [n \in DOMAIN res \cup {canonical} |->
            IF n = canonical
            THEN ResolvedPackage(canonical, version, needs_wheels)
            ELSE res[n]]

\* Mutant: the name of a missing release stays in in_flight.
RecordMissingKeepsInFlight ==
    /\ rpc = "record"
    /\ idx <= Len(batch)
    /\ no_release' = no_release \cup {batch[idx].name}
    /\ idx' = idx + 1
    /\ UNCHANGED <<packages, platforms, resolved, queue, in_flight, batch,
                   dep_meta, rpc, requires_dist, deps_failed, frontier_true>>
    /\ UNCHANGED notResolveVars

\* Mutant: a missing release is put back on the frontier.
RecordMissingRetries ==
    /\ rpc = "record"
    /\ idx <= Len(batch)
    /\ in_flight' = in_flight \ {batch[idx].name}
    /\ no_release' = no_release \cup {batch[idx].name}
    /\ queue' = Append(queue, batch[idx])
    /\ idx' = idx + 1
    /\ UNCHANGED <<packages, platforms, resolved, batch, dep_meta, rpc,
                   requires_dist, deps_failed, frontier_true>>
    /\ UNCHANGED notResolveVars

\* fetch_release returned None (pypi.py:227-232, 329-331)
RecordMissing ==
    /\ rpc = "record"
    /\ idx <= Len(batch)
    /\ in_flight' = in_flight \ {batch[idx].name}
    /\ no_release' = no_release \cup {batch[idx].name}
    /\ idx' = idx + 1
    /\ UNCHANGED <<packages, platforms, resolved, queue, batch, dep_meta, rpc,
                   requires_dist, deps_failed, frontier_true>>
    /\ UNCHANGED notResolveVars

\* fetch_release returned a release (pypi.py:333-346)
RecordResolved ==
    /\ rpc = "record"
    /\ idx <= Len(batch)
    /\ LET b == batch[idx]
       IN  /\ in_flight' = in_flight \ {b.name}
           /\ resolved' = Record(resolved, b.name, ReleaseVersion(b.ver),
                                 b.needs_wheels)
           /\ dep_meta' = Append(dep_meta,
                [name |-> b.name, needs_wheels |-> b.needs_wheels])
    /\ idx' = idx + 1
    /\ UNCHANGED <<packages, platforms, queue, batch, rpc,
                   requires_dist, no_release, deps_failed, frontier_true>>
    /\ UNCHANGED notResolveVars

\* pypi.py:348: the dependency fetches of the round are awaited.
GatherDependencies ==
    /\ rpc = "record"
    /\ idx > Len(batch)
    /\ rpc' = "deps"
    /\ idx' = 1
    /\ UNCHANGED <<packages, platforms, resolved, queue, in_flight, batch,
                   dep_meta, requires_dist, no_release, deps_failed, frontier_true>>
    /\ UNCHANGED notResolveVars

(***************************************************************************)
(* The loop over the dependencies (pypi.py:350-372).                       *)
(***************************************************************************)
\* Mutant: the classification of the parent is not looked at.
DepNeedsWheelsOfAnyParent(dep_reachable, parent_needs_wheels) == dep_reachable

DepNeedsWheels(dep_reachable, parent_needs_wheels) ==
    dep_reachable /\ parent_needs_wheels

\* Mutant: a requirement that holds on no target is not followed.
ProcessRequirementSkippingUnreachable(st, req, parent_needs_wheels) ==
    LET dep_canonical == canonicalize_name(req.name)
        reachable == _dep_reachable(req, python_versions, platforms)
    IN  IF dep_canonical \in DOMAIN st.resolved
        THEN IF parent_needs_wheels /\ reachable
             THEN [st EXCEPT !.resolved = Upgrade(st.resolved, dep_canonical)]
             ELSE st
        ELSE IF ~reachable THEN st
        ELSE [st EXCEPT !.queue = Append(st.queue,
                [name |-> req.name, ver |-> _extract_pin(req),
                 needs_wheels |-> DepNeedsWheels(reachable, parent_needs_wheels)])]

\* Mutant: a pinned requirement on a resolved name replaces its version.
ProcessRequirementRepinning(st, req, parent_needs_wheels) ==
    LET dep_canonical == canonicalize_name(req.name)
        reachable == _dep_reachable(req, python_versions, platforms)
        upgraded == IF parent_needs_wheels /\ reachable
                    THEN Upgrade(st.resolved, dep_canonical)
                    ELSE st.resolved
    IN  IF dep_canonical \in DOMAIN st.resolved
        THEN [st EXCEPT !.resolved =
                IF _extract_pin(req) # None
                THEN [upgraded EXCEPT ![dep_canonical].version = _extract_pin(req)]
                ELSE upgraded]
        ELSE [st EXCEPT !.queue = Append(st.queue,
                [name |-> req.name, ver |-> _extract_pin(req),
                 needs_wheels |-> DepNeedsWheels(reachable, parent_needs_wheels)])]

\* One requirement of one parent: the body of the inner for loop.
\* st is [resolved, queue].
ProcessRequirement(st, req, parent_needs_wheels) ==
    LET dep_canonical == canonicalize_name(req.name)
        reachable == _dep_reachable(req, python_versions, platforms)
    IN  IF dep_canonical \in DOMAIN st.resolved
        THEN IF parent_needs_wheels /\ reachable
             THEN [st EXCEPT !.resolved = Upgrade(st.resolved, dep_canonical)]
             ELSE st
        ELSE [st EXCEPT !.queue = Append(st.queue,
                [name |-> req.name, ver |-> _extract_pin(req),
                 needs_wheels |-> DepNeedsWheels(reachable, parent_needs_wheels)])]

RECURSIVE ProcessRequirements(_, _, _)
ProcessRequirements(st, deps, parent_needs_wheels) ==
    IF deps = <<>> THEN st
    ELSE ProcessRequirements(
            ProcessRequirement(st, Head(deps), parent_needs_wheels),
            Tail(deps), parent_needs_wheels)

ProcessDepsOf(deps) ==
    LET parent == dep_meta[idx]
        st == ProcessRequirements([resolved |-> resolved, queue |-> queue],
                                  deps, parent.needs_wheels)
    IN  /\ resolved' = st.resolved
        /\ queue' = st.queue
        /\ requires_dist' =
              [n \in DOMAIN requires_dist \cup {parent.name} |->
                  IF n = parent.name THEN deps ELSE requires_dist[n]]
        /\ frontier_true' = frontier_true \cup
              { canonicalize_name(st.queue[i].name) :
                  i \in { k \in (Len(queue) + 1)..Len(st.queue) :
                            st.queue[k].needs_wheels } }

\* fetch_dependencies returned the parsed requires_dist of the release.
ProcessDependencies ==
    /\ rpc = "deps"
    /\ idx <= Len(dep_meta)
    /\ \E deps \in SeqsUpTo(Requirements, MaxDeps) :
          /\ Len(deps) + Revealed <= MaxReqs
          /\ InOrder([i \in 1..Len(deps) |-> deps[i].name], Mentioned)
          /\ ProcessDepsOf(deps)
    /\ idx' = idx + 1
    /\ UNCHANGED <<packages, platforms, in_flight, batch, dep_meta, rpc,
                   no_release, deps_failed>>
    /\ UNCHANGED notResolveVars

\* The request of fetch_dependencies failed: it returns [] (pypi.py:263-265).
DependenciesFailed ==
    /\ rpc = "deps"
    /\ idx <= Len(dep_meta)
    /\ deps_failed' = deps_failed \cup {dep_meta[idx].name}
    /\ idx' = idx + 1
    /\ UNCHANGED <<packages, platforms, resolved, queue, in_flight, batch,
                   dep_meta, rpc, requires_dist, no_release, frontier_true>>
    /\ UNCHANGED notResolveVars

\* The round is over: back to  while queue  (pypi.py:300-303).
EndRound ==
    /\ rpc = "deps"
    /\ idx > Len(dep_meta)
    /\ batch' = <<>>
    /\ dep_meta' = <<>>
    /\ idx' = 0
    /\ rpc' = IF queue = <<>> THEN "done" ELSE "drain"
    /\ UNCHANGED <<packages, platforms, resolved, queue, in_flight,
                   requires_dist, no_release, deps_failed, frontier_true>>
    /\ UNCHANGED notResolveVars

NextResolve ==
    \/ Pop
    \/ GatherReleases
    \/ RecordMissing
    \/ RecordResolved
    \/ GatherDependencies
    \/ ProcessDependencies
    \/ DependenciesFailed
    \/ EndRound

SpecResolve == InitResolve /\ [][NextResolve]_vars

\* The event loop runs resolve() on, and every request ends (it is answered
\* or it times out, pypi.py:205).
FairResolve == SpecResolve /\ WF_vars(NextResolve)

(***************************************************************************)
(* Directory trees.  A mirror tree holds files/ (wheel filename -> bytes)  *)
(* and simple/ (the directory of an index.json, relative to simple/, ->    *)
(* its content; the project list is in the directory <<>>).                *)
(***************************************************************************)
Absent == [exists |-> FALSE, files |-> <<>>, simple |-> <<>>]
EmptyDir == [exists |-> TRUE, files |-> <<>>, simple |-> <<>>]

Put(f, k, v) == [x \in DOMAIN f \cup {k} |-> IF x = k THEN v ELSE f[x]]
Restrict(f, S) == [x \in S |-> f[x]]
Override(f, g) ==
    [x \in DOMAIN f \cup DOMAIN g |-> IF x \in DOMAIN g THEN g[x] ELSE f[x]]

\* hashlib.sha256 of a file's bytes (updater.py:38-43, index.py:157-162)
Sha256(bytes) == [sha256_of |-> bytes]

(***************************************************************************)
(* String order, for sorted().                                             *)
(***************************************************************************)
Alphabet == <<"-", ".", "/", "0", "1", "2", "A", "_", "a", "b", "c", "d", "e">>

Ord(c) == CHOOSE i \in 1..Len(Alphabet) : Alphabet[i] = c

RECURSIVE StrLess(_, _)
StrLess(s, t) ==
    IF t = <<>> THEN FALSE
    ELSE IF s = <<>> THEN TRUE
    ELSE IF Head(s) = Head(t) THEN StrLess(Tail(s), Tail(t))
    ELSE Ord(Head(s)) < Ord(Head(t))

\* sorted(S) for a set of strings
RECURSIVE SortedStrings(_)
SortedStrings(S) ==
    IF S = {} THEN <<>>
    ELSE LET least == CHOOSE x \in S : \A y \in S \ {x} : StrLess(x, y)
         IN  <<least>> \o SortedStrings(S \ {least})

(***************************************************************************)
(* Wheels.  A filename  {dist}-{ver}-py3-none-any.whl  is kept as its      *)
(* distribution name and version; the upstream registry serves one wheel   *)
(* per release.                                                            *)
(***************************************************************************)
V1 == <<"1", ".", "0">>
V2 == <<"2", ".", "0">>

WheelTags == <<"p", "y", "3", "-", "n", "-", "a">>

FilenameString(f) == f.dist \o <<"-">> \o f.ver \o <<"-">> \o WheelTags

\* The distribution name of a project in a wheel filename: - becomes _
RECURSIVE Escaped(_)
Escaped(name) ==
    IF name = <<>> THEN <<>>
    ELSE <<IF Head(name) = "-" THEN "_" ELSE Head(name)>> \o Escaped(Tail(name))

WheelFilename(canonical, ver) == [dist |-> Escaped(canonical), ver |-> ver]

\* The bytes the registry serves for a wheel, bytes of a file that are not
\* those, and the upstream URL of a wheel.
Bytes(filename) == [wheel |-> filename]
OtherBytes(filename) == [wheel |-> filename, edited |-> TRUE]
UpstreamUrl(filename) == [base |-> "https://files.pythonhosted.org", file |-> filename]
LocalUrl(filename) == [base |-> "../../files", file |-> filename]

\* index.py:130-134: the URL of a file of the mirror; base_url is given
\* without a trailing slash.
BaseUrls == {"", "http://mirror:8080"}
MirrorUrl(base_url, filename) ==
    IF base_url # ""
    THEN [base |-> CASE base_url = "http://mirror:8080" -> "http://mirror:8080/files",
          file |-> filename]
    ELSE LocalUrl(filename)

\* pypi.py:27-36; sha256 is the set of the digest, empty for "".
WheelFile(filename, url, sha256) ==
    [filename |-> filename, url |-> url, sha256 |-> sha256]

\* pypi.py:133-146, 245-251: the wheels of a release
ReleaseWheels(canonical, ver) ==
    LET f == WheelFilename(canonical, ver)
    IN  << WheelFile(f, {UpstreamUrl(f)}, {Sha256(Bytes(f))}) >>

\* pypi.py:88-96, with the release it owns
Package(canonical, ver, wheels, needs_wheels) ==
    [name |-> canonical, version |-> ver, wheels |-> wheels,
     needs_wheels |-> needs_wheels]

\* The releases of the registry the updates run against.
UpdateReleases ==
    { <<Projects[1], V1>>, <<Projects[1], V2>>, <<Projects[2], V2>> }

\* The closures resolve_fn can return: one release per project.
Closures ==
    { c \in UNION { [S -> { Package(r[1], r[2], ReleaseWheels(r[1], r[2]), nw) :
                              r \in UpdateReleases, nw \in BOOLEAN }] :
                    S \in SUBSET { r[1] : r \in UpdateReleases } } :
        \A n \in DOMAIN c : c[n].name = n }

\* pypi.py:21-24, 118-130: a filename the wheel pattern matches
WheelPatternMatches(filename) ==
    filename.dist # <<>> /\ filename.ver # <<>> /\ Head(filename.ver) \in {"0", "1", "2"}

\* pypi.py:394-413; the sequence is empty for None
reconstruct_package_from_wheel(filename) ==
    IF ~WheelPatternMatches(filename) THEN <<>>
    ELSE << Package(canonicalize_name(filename.dist), filename.ver,
                    << WheelFile(filename, {}, {}) >>, TRUE) >>

(***************************************************************************)
(* index.build_index, the JSON pages (index.py:22-154).                    *)
(***************************************************************************)
TopLevel == <<>>

IndexPage(name, projects, files) ==
    [name |-> name, projects |-> projects, files |-> files]

\* The file entry of a metadata-only wheel made like a local one when the
\* file exists.
_build_file_entryLocalFirst(wheel, files, base_url, needs_wheels) ==
    IF wheel.filename \in DOMAIN files
    THEN << [filename |-> wheel.filename,
             url |-> {MirrorUrl(base_url, wheel.filename)},
             hashes |-> {Sha256(files[wheel.filename])}] >>
    ELSE IF ~needs_wheels
    THEN << [filename |-> wheel.filename, url |-> wheel.url,
             hashes |-> wheel.sha256] >>
    ELSE <<>>

\* The file entry without the wheel_path.exists() test.
_build_file_entryWithoutExists(wheel, files, base_url, needs_wheels) ==
    IF needs_wheels
    THEN << [filename |-> wheel.filename,
             url |-> {MirrorUrl(base_url, wheel.filename)},
             hashes |-> IF wheel.filename \in DOMAIN files
                        THEN {Sha256(files[wheel.filename])}
                        ELSE wheel.sha256] >>
    ELSE << [filename |-> wheel.filename, url |-> wheel.url,
             hashes |-> wheel.sha256] >>

\* index.py:120-154; the sequence is empty for None
_build_file_entry(wheel, files, base_url, needs_wheels) ==
    IF needs_wheels /\ wheel.filename \in DOMAIN files
    THEN << [filename |-> wheel.filename,
             url |-> {MirrorUrl(base_url, wheel.filename)},
             hashes |-> {Sha256(files[wheel.filename])}] >>
    ELSE IF ~needs_wheels
    THEN << [filename |-> wheel.filename, url |-> wheel.url,
             hashes |-> wheel.sha256] >>
    ELSE <<>>

\* The wheels of one package with the seen_files test left out.
RECURSIVE WheelEntriesKeepingDuplicates(_, _, _, _, _)
WheelEntriesKeepingDuplicates(wheels, needs_wheels, files, base_url, seen) ==
    IF wheels = <<>> THEN [entries |-> <<>>, seen |-> seen]
    ELSE LET rest == WheelEntriesKeepingDuplicates(Tail(wheels), needs_wheels,
                                                   files, base_url, seen)
         IN  [entries |-> _build_file_entry(Head(wheels), files, base_url,
                                            needs_wheels) \o rest.entries,
              seen |-> seen]

\* index.py:91-105: the wheels of the packages of one name, first occurrence
\* of a filename only
RECURSIVE WheelEntries(_, _, _, _, _)
WheelEntries(wheels, needs_wheels, files, base_url, seen) ==
    IF wheels = <<>> THEN [entries |-> <<>>, seen |-> seen]
    ELSE LET w == Head(wheels)
             rest == WheelEntries(Tail(wheels), needs_wheels, files, base_url,
                                  seen \cup {w.filename})
         IN  IF w.filename \in seen
             THEN WheelEntries(Tail(wheels), needs_wheels, files, base_url, seen)
             ELSE [entries |-> _build_file_entry(w, files, base_url, needs_wheels)
                                 \o rest.entries,
                   seen |-> rest.seen]

RECURSIVE PackageEntries(_, _, _, _)
PackageEntries(pkgs, files, base_url, seen) ==
    IF pkgs = <<>> THEN <<>>
    ELSE LET r == WheelEntries(Head(pkgs).wheels, Head(pkgs).needs_wheels,
                               files, base_url, seen)
         IN  r.entries \o PackageEntries(Tail(pkgs), files, base_url, r.seen)

\* files.sort(key=lambda x: x["filename"]): the sort is stable, an entry goes
\* behind the entries whose filename is not greater.
RECURSIVE SortedEntries(_)
SortedEntries(entries) ==
    IF entries = <<>> THEN <<>>
    ELSE LET last == entries[Len(entries)]
             front == SortedEntries(SubSeq(entries, 1, Len(entries) - 1))
             before == { i \in 1..Len(front) :
                           ~StrLess(FilenameString(last.filename),
                                    FilenameString(front[i].filename)) }
             n == Cardinality(before)
         IN  SubSeq(front, 1, n) \o <<last>> \o SubSeq(front, n + 1, Len(front))

SelectSeq2(seq, name) ==
    SelectSeq(seq, LAMBDA pkg : canonicalize_name(pkg.name) = name)

\* The simple root, resolved: <output>/simple as its path components.
SimpleDir == << <<"m">>, <<"s">> >>

\* The components of a path written with "/".
RECURSIVE Parts(_)
Parts(s) ==
    IF s = <<>> THEN <<>>
    ELSE LET cut == IF \E i \in 1..Len(s) : s[i] = "/"
                    THEN CHOOSE i \in 1..Len(s) :
                             s[i] = "/" /\ \A j \in 1..(i - 1) : s[j] # "/"
                    ELSE Len(s) + 1
             head == SubSeq(s, 1, cut - 1)
         IN  (IF head = <<>> THEN <<>> ELSE <<head>>)
                 \o Parts(SubSeq(s, cut + 1, Len(s)))

\* index.py:82: (simple_dir / name).resolve(); an absolute name replaces
\* the left operand.
ProjectDir(name) ==
    IF name # <<>> /\ name[1] = "/" THEN Parts(name) ELSE SimpleDir \o Parts(name)

\* Path.is_relative_to
is_relative_to(path, root) ==
    Len(path) >= Len(root) /\ SubSeq(path, 1, Len(root)) = root

\* The test of index.py:83 left out.
OutsideSimpleUnchecked(name) == FALSE

\* index.py:83: the project directory is not under the simple root.
OutsideSimple(name) == ~is_relative_to(ProjectDir(name), SimpleDir)

\* index.py:52-57: the keys of by_name, in the order they are inserted.
RECURSIVE ByNameOrder(_)
ByNameOrder(pkgs) ==
    IF pkgs = <<>> THEN <<>>
    ELSE LET front == ByNameOrder(SubSeq(pkgs, 1, Len(pkgs) - 1))
             canonical == canonicalize_name(pkgs[Len(pkgs)].name)
         IN  IF canonical \in Range(front) THEN front ELSE Append(front, canonical)

\* index.py:73-117
_write_project_detail(name, pkgs, files, base_url) ==
    IndexPage(name, <<>>,
              SortedEntries(PackageEntries(pkgs, files, base_url, {})))

\* build_index grouping the packages by their name as given.
build_indexByGivenName(pkgs, files, base_url) ==
    LET by_name == { pkgs[i].name : i \in 1..Len(pkgs) }
    IN  [d \in {TopLevel} \cup by_name |->
            IF d = TopLevel
            THEN IndexPage(<<>>, SortedStrings(by_name), <<>>)
            ELSE _write_project_detail(
                     d, SelectSeq(pkgs, LAMBDA pkg : pkg.name = d), files, base_url)]

\* index.py:40-70: simple/ as build_index writes it
build_index(pkgs, files, base_url) ==
    LET by_name == { canonicalize_name(pkgs[i].name) : i \in 1..Len(pkgs) }
    IN  [d \in {TopLevel} \cup by_name |->
            IF d = TopLevel
            THEN IndexPage(<<>>, SortedStrings(by_name), <<>>)
            ELSE _write_project_detail(d, SelectSeq2(pkgs, d), files, base_url)]

(***************************************************************************)
(* updater.compute_diff and updater.write_diff_package.  A sorted list of  *)
(* distinct names is kept as its set.                                      *)
(***************************************************************************)
\* updater.py:105-108
_wheel_sha_map(tree) ==
    IF ~tree.exists THEN <<>>
    ELSE [f \in DOMAIN tree.files |-> Sha256(tree.files[f])]

\* updater.py:111-119
_index_content_map(tree) ==
    IF ~tree.exists THEN <<>>
    ELSE [d \in DOMAIN tree.simple |-> Sha256(tree.simple[d])]

\* compute_diff listing every index path of both trees as changed, without
\* comparing the digests.
compute_diffWithoutDigests(old_mirror, new_mirror) ==
    LET old_files == _wheel_sha_map(old_mirror)
        new_files == _wheel_sha_map(new_mirror)
        old_index == _index_content_map(old_mirror)
        new_index == _index_content_map(new_mirror)
    IN  [added_wheels |-> DOMAIN new_files \ DOMAIN old_files,
         removed_wheels |-> DOMAIN old_files \ DOMAIN new_files,
         changed_index |-> DOMAIN old_index \cap DOMAIN new_index,
         added_index |-> DOMAIN new_index \ DOMAIN old_index]

\* compute_diff taking the old mirror for a directory that does not exist.
compute_diffAgainstNothing(old_mirror, new_mirror) ==
    LET new_files == _wheel_sha_map(new_mirror)
        new_index == _index_content_map(new_mirror)
    IN  [added_wheels |-> DOMAIN new_files,
         removed_wheels |-> {},
         changed_index |-> {},
         added_index |-> DOMAIN new_index]

\* updater.py:68-102
compute_diff(old_mirror, new_mirror) ==
    LET old_files == _wheel_sha_map(old_mirror)
        new_files == _wheel_sha_map(new_mirror)
        old_index == _index_content_map(old_mirror)
        new_index == _index_content_map(new_mirror)
    IN  [added_wheels |-> DOMAIN new_files \ DOMAIN old_files,
         removed_wheels |-> DOMAIN old_files \ DOMAIN new_files,
         changed_index |->
            { d \in DOMAIN old_index \cap DOMAIN new_index :
                old_index[d] # new_index[d] },
         added_index |-> DOMAIN new_index \ DOMAIN old_index]

NoPackage == [files |-> <<>>, simple |-> <<>>, manifest |-> <<>>, apply_md |-> <<>>]

\* updater.py:202-270: the commands of APPLY.md
_write_apply_md(d, ts) ==
    << [cmd |-> "cp -r $DIFF/files/. mirror/files/", args |-> {}],
       [cmd |-> "cp -r $DIFF/simple/. mirror/simple/", args |-> {}],
       [cmd |-> "rm -f mirror/files/", args |-> d.removed_wheels] >>

\* updater.py:140-199: diffs/<timestamp>/ after the call; before is what the
\* directory held (mkdir(exist_ok=True) keeps it).
write_diff_package(new_mirror, d, before, ts) ==
    LET index_dirs == (d.changed_index \cup d.added_index)
        copied == Override(before.simple, Restrict(new_mirror.simple, index_dirs))
    IN  [files |-> Override(before.files,
                            Restrict(new_mirror.files, d.added_wheels)),
         simple |->
            IF TopLevel \in DOMAIN new_mirror.simple /\ TopLevel \notin DOMAIN copied
            THEN Put(copied, TopLevel, new_mirror.simple[TopLevel])
            ELSE copied,
         manifest |-> << [timestamp |-> ts,
                          added_wheels |-> d.added_wheels,
                          removed_wheels |-> d.removed_wheels,
                          changed_index |-> d.changed_index,
                          added_index |-> d.added_index] >>,
         apply_md |-> _write_apply_md(d, ts)]

\* The offline mirror after the operator has run the commands of APPLY.md.
ApplyDiffPackage(tree, package) ==
    LET copied == Override(tree.files, package.files)
        removed == package.apply_md[3].args
    IN  [exists |-> TRUE,
         files |-> Restrict(copied, DOMAIN copied \ removed),
         simple |-> Override(tree.simple, package.simple)]

(***************************************************************************)
(* updater.run_update (updater.py:278-363), one call after the other.      *)
(***************************************************************************)
IdleResolve ==
    /\ packages = <<>>
    /\ platforms = <<>>
    /\ resolved = <<>>
    /\ queue = <<>>
    /\ in_flight = {}
    /\ batch = <<>>
    /\ dep_meta = <<>>
    /\ rpc = "idle"
    /\ idx = 0
    /\ requires_dist = <<>>
    /\ no_release = {}
    /\ deps_failed = {}
    /\ frontier_true = {}

InitUpdate ==
    /\ IdleResolve
    /\ IdleUpdate
    /\ IdleDownload
    /\ IdleIndex
    /\ IdleClient
    /\ IdleServer
    /\ IdleTags
    /\ IdleMarker

\* updater.py:294-297: _now_ts() has a resolution of one second, mkdtemp
\* makes the staging directory.
StartUpdate ==
    /\ upc \in {"idle", "done", "failed"}
    /\ runs < MaxRuns
    /\ runs' = runs + 1
    /\ timestamp' \in {t \in {timestamp, timestamp + 1} : t >= 1}
    /\ staging' = EmptyDir
    /\ pre_mirror' = mirror
    /\ prev_resolved' = IF upc = "done" THEN {u_resolved} ELSE {}
    /\ staged' = Absent
    /\ failed_at' = "None"
    /\ u_resolved' = <<>>
    /\ all_pkgs' = <<>>
    /\ diff' = compute_diff(Absent, Absent)
    /\ upc' = "resolve"
    /\ UNCHANGED <<mirror, archives, diffs>>
    /\ UNCHANGED notUpdateVars

\* updater.py:303
ResolveClosure ==
    /\ upc = "resolve"
    /\ u_resolved' \in Closures
    /\ upc' = "download"
    /\ UNCHANGED <<mirror, staging, archives, diffs, timestamp, all_pkgs, diff,
                   runs, pre_mirror, prev_resolved, staged, failed_at>>
    /\ UNCHANGED notUpdateVars

\* The wheels download_wheels selects: those of the packages that need
\* wheels (downloader.py:153-182; a py3-none-any wheel is wanted on every
\* target).
SelectedWheels(closure) ==
    UNION { { closure[n].wheels[i].filename : i \in 1..Len(closure[n].wheels) } :
              n \in { m \in DOMAIN closure : closure[m].needs_wheels } }

\* updater.py:304: each selected wheel is stored or, when its download
\* fails, is not (downloader.py:241-253).
DownloadWheels ==
    /\ upc = "download"
    /\ \E stored \in SUBSET SelectedWheels(u_resolved) :
          staging' = [staging EXCEPT !.files =
                        Override(staging.files, [f \in stored |-> Bytes(f)])]
    /\ upc' = "preserve"
    /\ UNCHANGED <<mirror, archives, diffs, timestamp, u_resolved, all_pkgs, diff,
                   runs, pre_mirror, prev_resolved, staged, failed_at>>
    /\ UNCHANGED notUpdateVars

\* updater.py:312-317
known_wheels(closure) ==
    { w.filename : w \in UNION { Range(closure[n].wheels) :
                                  n \in { m \in DOMAIN closure :
                                           closure[m].needs_wheels } } }

\* glob("*.whl") in the order of the filenames
ExistingFiles(tree) ==
    LET names == { FilenameString(f) : f \in DOMAIN tree.files }
        sorted == SortedStrings(names)
    IN  [i \in 1..Len(sorted) |->
            CHOOSE f \in DOMAIN tree.files : FilenameString(f) = sorted[i]]

\* The preserve step without the loop over the existing files.
PreservedFilesDroppingOld(existing, staged_files) == staged_files

\* updater.py:321-328: the wheels os.link / shutil.copy2 puts in staging
PreservedFiles(existing, staged_files) ==
    Override([f \in DOMAIN existing |-> existing[f]], staged_files)

\* The preserve step without the reconstruction of packages.
ReconstructedPackagesSkipped(paths, known) == <<>>

\* updater.py:330-334: the packages reconstructed from the old wheels
RECURSIVE ReconstructedPackages(_, _)
ReconstructedPackages(paths, known) ==
    IF paths = <<>> THEN <<>>
    ELSE (IF Head(paths) \notin known
          THEN reconstruct_package_from_wheel(Head(paths))
          ELSE <<>>) \o ReconstructedPackages(Tail(paths), known)

\* resolved.values(), in the order of the names
ClosureValues(closure) ==
    LET names == SortedStrings(DOMAIN closure)
    IN  [i \in 1..Len(names) |-> closure[names[i]]]

\* updater.py:306-334
PreserveOldWheels ==
    /\ upc = "preserve"
    /\ staging' = [staging EXCEPT !.files =
                     PreservedFiles(mirror.files, staging.files)]
    /\ all_pkgs' = ClosureValues(u_resolved) \o
                   ReconstructedPackages(ExistingFiles(mirror),
                                         known_wheels(u_resolved))
    /\ upc' = "index"
    /\ UNCHANGED <<mirror, archives, diffs, timestamp, u_resolved, diff,
                   runs, pre_mirror, prev_resolved, staged, failed_at>>
    /\ UNCHANGED notUpdateVars

\* updater.py:336
BuildIndex ==
    /\ upc = "index"
    /\ staging' = [staging EXCEPT !.simple = build_index(all_pkgs, staging.files, "")]
    /\ upc' = "archive"
    /\ UNCHANGED <<mirror, archives, diffs, timestamp, u_resolved, all_pkgs, diff,
                   runs, pre_mirror, prev_resolved, staged, failed_at>>
    /\ UNCHANGED notUpdateVars

\* updater.py:51-60, 342: copytree raises when archives/<timestamp> exists
ArchiveMirror ==
    /\ upc = "archive"
    /\ ~(mirror.exists /\ timestamp \in DOMAIN archives)
    /\ archives' = IF mirror.exists THEN Put(archives, timestamp, mirror)
                   ELSE IF timestamp \in DOMAIN archives THEN archives
                   ELSE Put(archives, timestamp, EmptyDir)
    /\ upc' = "diff"
    /\ UNCHANGED <<mirror, staging, diffs, timestamp, u_resolved, all_pkgs, diff,
                   runs, pre_mirror, prev_resolved, staged, failed_at>>
    /\ UNCHANGED notUpdateVars

\* updater.py:345
ComputeDiff ==
    /\ upc = "diff"
    /\ diff' = compute_diff(mirror, staging)
    /\ upc' = "write"
    /\ UNCHANGED <<mirror, staging, archives, diffs, timestamp, u_resolved,
                   all_pkgs, runs, pre_mirror,
                   prev_resolved, staged, failed_at>>
    /\ UNCHANGED notUpdateVars

\* run_update going from the diff to the apply step without writing the
\* diff package.
WriteDiffPackageSkipped ==
    /\ upc = "write"
    /\ upc' = "apply"
    /\ UNCHANGED <<mirror, staging, archives, diffs, timestamp, u_resolved,
                   all_pkgs, diff, runs, pre_mirror,
                   prev_resolved, staged, failed_at>>
    /\ UNCHANGED notUpdateVars

\* updater.py:356
WriteDiffPackage ==
    /\ upc = "write"
    /\ diffs' = Put(diffs, timestamp,
                    write_diff_package(staging, diff,
                        IF timestamp \in DOMAIN diffs THEN diffs[timestamp]
                        ELSE NoPackage, timestamp))
    /\ upc' = "apply"
    /\ UNCHANGED <<mirror, staging, archives, timestamp, u_resolved, all_pkgs,
                   diff, runs, pre_mirror, prev_resolved, staged, failed_at>>
    /\ UNCHANGED notUpdateVars

(***************************************************************************)
(* updater.apply_update (updater.py:127-132): shutil.rmtree removes the    *)
(* entries of the mirror one by one and then the directory,                *)
(* shutil.copytree makes the directory and copies the entries one by one.  *)
(***************************************************************************)
ApplyUpdate ==
    /\ upc = "apply"
    /\ staged' = staging
    /\ upc' = IF mirror.exists THEN "rmtree" ELSE "copytree"
    /\ UNCHANGED <<mirror, staging, archives, diffs, timestamp, u_resolved,
                   all_pkgs, diff, runs, pre_mirror, prev_resolved, failed_at>>
    /\ UNCHANGED notUpdateVars

RmtreeWheel ==
    /\ upc = "rmtree"
    /\ \E f \in DOMAIN mirror.files :
          mirror' = [mirror EXCEPT !.files =
                        Restrict(mirror.files, DOMAIN mirror.files \ {f})]
    /\ UNCHANGED <<staging, archives, diffs, timestamp, u_resolved, all_pkgs,
                   diff, upc, runs, pre_mirror,
                   prev_resolved, staged, failed_at>>
    /\ UNCHANGED notUpdateVars

RmtreeIndex ==
    /\ upc = "rmtree"
    /\ \E d \in DOMAIN mirror.simple :
          mirror' = [mirror EXCEPT !.simple =
                        Restrict(mirror.simple, DOMAIN mirror.simple \ {d})]
    /\ UNCHANGED <<staging, archives, diffs, timestamp, u_resolved, all_pkgs,
                   diff, upc, runs, pre_mirror,
                   prev_resolved, staged, failed_at>>
    /\ UNCHANGED notUpdateVars

RmtreeDir ==
    /\ upc = "rmtree"
    /\ DOMAIN mirror.files = {}
    /\ DOMAIN mirror.simple = {}
    /\ mirror' = Absent
    /\ upc' = "copytree"
    /\ UNCHANGED <<staging, archives, diffs, timestamp, u_resolved, all_pkgs,
                   diff, runs, pre_mirror, prev_resolved, staged, failed_at>>
    /\ UNCHANGED notUpdateVars

CopytreeMkdir ==
    /\ upc = "copytree"
    /\ ~mirror.exists
    /\ mirror' = EmptyDir
    /\ UNCHANGED <<staging, archives, diffs, timestamp, u_resolved, all_pkgs,
                   diff, upc, runs, pre_mirror,
                   prev_resolved, staged, failed_at>>
    /\ UNCHANGED notUpdateVars

CopytreeWheel ==
    /\ upc = "copytree"
    /\ mirror.exists
    /\ \E f \in DOMAIN staging.files \ DOMAIN mirror.files :
          mirror' = [mirror EXCEPT !.files = Put(mirror.files, f, staging.files[f])]
    /\ UNCHANGED <<staging, archives, diffs, timestamp, u_resolved, all_pkgs,
                   diff, upc, runs, pre_mirror,
                   prev_resolved, staged, failed_at>>
    /\ UNCHANGED notUpdateVars

CopytreeIndex ==
    /\ upc = "copytree"
    /\ mirror.exists
    /\ \E d \in DOMAIN staging.simple \ DOMAIN mirror.simple :
          mirror' = [mirror EXCEPT !.simple = Put(mirror.simple, d, staging.simple[d])]
    /\ UNCHANGED <<staging, archives, diffs, timestamp, u_resolved, all_pkgs,
                   diff, upc, runs, pre_mirror,
                   prev_resolved, staged, failed_at>>
    /\ UNCHANGED notUpdateVars

\* updater.py:360-363: copytree has returned; the finally clause removes the
\* staging directory and run_update returns.
ReturnUpdate ==
    /\ upc = "copytree"
    /\ mirror.exists
    /\ DOMAIN mirror.files = DOMAIN staging.files
    /\ DOMAIN mirror.simple = DOMAIN staging.simple
    /\ staging' = Absent
    /\ upc' = "done"
    /\ UNCHANGED <<mirror, archives, diffs, timestamp, u_resolved, all_pkgs,
                   diff, runs, pre_mirror, prev_resolved, staged, failed_at>>
    /\ UNCHANGED notUpdateVars

\* An exception or an interrupt at any position of the try block: the
\* finally clause removes the staging directory (updater.py:298, 360-361).
Positions ==
    {"resolve", "download", "preserve", "index", "archive", "diff", "write",
     "apply", "rmtree", "copytree"}

\* The try block without its finally clause.
FailUpdateWithoutFinally ==
    /\ upc \in Positions
    /\ failed_at' = upc
    /\ upc' = "failed"
    /\ UNCHANGED <<mirror, staging, archives, diffs, timestamp, u_resolved,
                   all_pkgs, diff, runs, pre_mirror, prev_resolved, staged>>
    /\ UNCHANGED notUpdateVars

FailUpdate ==
    /\ upc \in Positions
    /\ failed_at' = upc
    /\ staging' = Absent
    /\ upc' = "failed"
    /\ UNCHANGED <<mirror, archives, diffs, timestamp, u_resolved, all_pkgs,
                   diff, runs, pre_mirror, prev_resolved, staged>>
    /\ UNCHANGED notUpdateVars

NextUpdate ==
    \/ StartUpdate
    \/ ResolveClosure
    \/ DownloadWheels
    \/ PreserveOldWheels
    \/ BuildIndex
    \/ ArchiveMirror
    \/ ComputeDiff
    \/ WriteDiffPackage
    \/ ApplyUpdate
    \/ RmtreeWheel
    \/ RmtreeIndex
    \/ RmtreeDir
    \/ CopytreeMkdir
    \/ CopytreeWheel
    \/ CopytreeIndex
    \/ ReturnUpdate
    \/ FailUpdate

SpecUpdate == InitUpdate /\ [][NextUpdate]_vars

\* A file of <mirror>/files/ that ends in .whl and that the wheel pattern
\* does not match:  c-b-py3-none-any.whl
ForeignWheel == [dist |-> <<"c">>, ver |-> <<"b">>]

\* run_update on a mirror that is absent, or that holds such a file.
InitUpdateForeign ==
    /\ IdleResolve
    /\ IdleDownload
    /\ IdleIndex
    /\ IdleClient
    /\ IdleServer
    /\ IdleTags
    /\ IdleMarker
    /\ mirror \in {Absent,
                   [exists |-> TRUE, simple |-> <<>>,
                    files |-> [f \in {ForeignWheel} |-> Bytes(f)]]}
    /\ staging = Absent
    /\ archives = <<>>
    /\ diffs = <<>>
    /\ timestamp = 0
    /\ u_resolved = <<>>
    /\ all_pkgs = <<>>
    /\ diff = compute_diff(Absent, Absent)
    /\ upc = "idle"
    /\ runs = 0
    /\ pre_mirror = Absent
    /\ prev_resolved = {}
    /\ staged = Absent
    /\ failed_at = "None"

SpecUpdateForeign == InitUpdateForeign /\ [][NextUpdate]_vars

(***************************************************************************)
(* updater.compute_diff and updater.write_diff_package called on a pair of *)
(* directory trees (updater.py:68-199).                                    *)
(***************************************************************************)
\* The trees: any wheels of two filenames, with the bytes of the registry
\* or other bytes, and any index.json of the project list and of two
\* projects, listing no file or one.
DiffWheels == { WheelFilename(Projects[1], V1), WheelFilename(Projects[2], V2) }

DiffPages(d) ==
    IF d = TopLevel
    THEN { IndexPage(<<>>, <<>>, <<>>), IndexPage(<<>>, <<Projects[1]>>, <<>>) }
    ELSE { IndexPage(d, <<>>, <<>>),
           IndexPage(d, <<>>, _build_file_entry(ReleaseWheels(d, V2)[1], <<>>,
                                                "", FALSE)) }

DiffTrees ==
    {Absent} \cup
    { [exists |-> TRUE, files |-> f, simple |-> x] :
        f \in UNION { [S -> {"right", "other"}] : S \in SUBSET DiffWheels },
        x \in UNION { { y \in [S -> UNION { DiffPages(d) : d \in S }] :
                          \A d \in S : y[d] \in DiffPages(d) } :
                      S \in SUBSET {TopLevel, Projects[1], Projects[2]} } }

TreeOnDisk(tree) ==
    [tree EXCEPT !.files = [f \in DOMAIN tree.files |->
                              IF tree.files[f] = "right" THEN Bytes(f)
                              ELSE OtherBytes(f)]]

InitDiff ==
    /\ IdleResolve
    /\ IdleDownload
    /\ IdleIndex
    /\ IdleClient
    /\ IdleServer
    /\ IdleTags
    /\ IdleMarker
    /\ \E old_mirror, new_mirror \in DiffTrees :
          /\ new_mirror.exists
          /\ mirror = TreeOnDisk(old_mirror)
          /\ staging = TreeOnDisk(new_mirror)
    /\ archives = <<>>
    /\ diffs = <<>>
    /\ timestamp = 1
    /\ u_resolved = <<>>
    /\ all_pkgs = <<>>
    /\ diff = compute_diff(Absent, Absent)
    /\ upc = "diff"
    /\ runs = 1
    /\ pre_mirror = mirror
    /\ prev_resolved = {}
    /\ staged = Absent
    /\ failed_at = "None"

NextDiff ==
    \/ ComputeDiff
    \/ WriteDiffPackage

SpecDiff == InitDiff /\ [][NextDiff]_vars

(***************************************************************************)
(* cli.build (cli.py:67-123), one call after the other on one output       *)
(* directory: resolve, download_wheels and build_index are handed          *)
(* cfg.output_dir, the mirror directory itself.                            *)
(***************************************************************************)
InitBuild == InitUpdate

\* cli.py:103-110
BuildResolve ==
    /\ upc \in {"idle", "built"}
    /\ runs < MaxRuns
    /\ runs' = runs + 1
    /\ u_resolved' \in Closures
    /\ upc' = "build download"
    /\ UNCHANGED <<mirror, staging, archives, diffs, timestamp, all_pkgs, diff,
                   pre_mirror, prev_resolved, staged, failed_at>>
    /\ UNCHANGED notUpdateVars

\* cli.py:112-117, downloader.py:146-147: files_dir.mkdir
BuildMkdir ==
    /\ upc = "build download"
    /\ ~mirror.exists
    /\ mirror' = EmptyDir
    /\ UNCHANGED <<staging, archives, diffs, timestamp, u_resolved, all_pkgs,
                   diff, upc, runs, pre_mirror,
                   prev_resolved, staged, failed_at>>
    /\ UNCHANGED notUpdateVars

\* cli.py:112-117, downloader.py:241-249: one selected wheel that is not yet
\* in <output>/files is downloaded and stored there.
BuildDownloadOne ==
    /\ upc = "build download"
    /\ mirror.exists
    /\ \E f \in SelectedWheels(u_resolved) \ DOMAIN mirror.files :
          mirror' = [mirror EXCEPT !.files = Put(mirror.files, f, Bytes(f))]
    /\ UNCHANGED <<staging, archives, diffs, timestamp, u_resolved, all_pkgs,
                   diff, upc, runs, pre_mirror,
                   prev_resolved, staged, failed_at>>
    /\ UNCHANGED notUpdateVars

\* download_wheels returns; the wheels not stored are those whose download
\* failed.
BuildDownloadReturns ==
    /\ upc = "build download"
    /\ mirror.exists
    /\ upc' = "build index"
    /\ UNCHANGED <<mirror, staging, archives, diffs, timestamp, u_resolved,
                   all_pkgs, diff, runs, pre_mirror,
                   prev_resolved, staged, failed_at>>
    /\ UNCHANGED notUpdateVars

\* cli.py:119: build_index(resolved, cfg.output_dir)
BuildWriteIndex ==
    /\ upc = "build index"
    /\ mirror' = [mirror EXCEPT !.simple =
                    Override(mirror.simple,
                             build_index(ClosureValues(u_resolved), mirror.files, ""))]
    /\ upc' = "built"
    /\ UNCHANGED <<staging, archives, diffs, timestamp, u_resolved, all_pkgs,
                   diff, runs, pre_mirror, prev_resolved, staged, failed_at>>
    /\ UNCHANGED notUpdateVars

NextBuild ==
    \/ BuildResolve
    \/ BuildMkdir
    \/ BuildDownloadOne
    \/ BuildDownloadReturns
    \/ BuildWriteIndex

SpecBuild == InitBuild /\ [][NextBuild]_vars

(***************************************************************************)
(* Wheel tags (pypi.py:27-130).  A tag and a target are sequences of       *)
(* one-character strings, so that startswith, endswith, split and int are  *)
(* computed.                                                               *)
(***************************************************************************)
StartsWith(s, prefix) ==
    Len(s) >= Len(prefix) /\ SubSeq(s, 1, Len(prefix)) = prefix

EndsWith(s, suffix) ==
    Len(s) >= Len(suffix) /\ SubSeq(s, Len(s) - Len(suffix) + 1, Len(s)) = suffix

Digits == <<"0", "1", "2", "3", "4", "5", "6", "7", "8", "9">>

IsDigits(s) == s # <<>> /\ \A i \in 1..Len(s) : s[i] \in Range(Digits)

DigitValue(c) == (CHOOSE i \in 1..Len(Digits) : Digits[i] = c) - 1

\* int(s) for a string of digits; IsDigits(s) is false where int raises
\* ValueError
RECURSIVE ParseInt(_)
ParseInt(s) ==
    IF Len(s) = 1 THEN DigitValue(s[1])
    ELSE 10 * ParseInt(SubSeq(s, 1, Len(s) - 1)) + DigitValue(s[Len(s)])

\* python_version.split("."): the parts before and after the dot
SplitVersion(python_version) ==
    LET dot == CHOOSE i \in 1..Len(python_version) : python_version[i] = "."
    IN  [major |-> SubSeq(python_version, 1, dot - 1),
         minor |-> SubSeq(python_version, dot + 1, Len(python_version))]

Py3 == <<"p", "y", "3">>
Cp3 == <<"c", "p", "3">>
Abi3 == <<"a", "b", "i", "3">>
AnyPlatform == <<"a", "n", "y">>

\* pypi.py:47-77
matches_python(wheel, python_version) ==
    LET v == SplitVersion(python_version)
        target_major == ParseInt(v.major)
        target_minor == ParseInt(v.minor)
        cp_tag == <<"c", "p">> \o v.major \o v.minor
        py_tag == <<"p", "y">> \o v.major
        py_full_tag == <<"p", "y">> \o v.major \o v.minor
    IN  \/ \E t \in Range(wheel.python_tags) :
              t \in {cp_tag, py_tag, py_full_tag, Py3, Cp3}
        \/ /\ Abi3 \in Range(wheel.abi_tags)
           /\ \E tag \in Range(wheel.python_tags) :
                 /\ StartsWith(tag, Cp3)
                 /\ Len(tag) > 3
                 /\ IsDigits(SubSeq(tag, 4, Len(tag)))
                 /\ target_major = 3
                 /\ target_minor >= ParseInt(SubSeq(tag, 4, Len(tag)))

Linux_ == <<"l", "i", "n", "u", "x", "_">>
Manylinux == <<"m", "a", "n", "y", "l", "i", "n", "u", "x">>
Musllinux == <<"m", "u", "s", "l", "l", "i", "n", "u", "x">>

\* pypi.py:99-115
_platform_tag_matches(wheel_plat, target_plat) ==
    \/ wheel_plat = target_plat
    \/ /\ StartsWith(target_plat, Linux_)
       /\ LET arch == SubSeq(target_plat, Len(Linux_) + 1, Len(target_plat))
          IN  /\ StartsWith(wheel_plat, Manylinux) \/ StartsWith(wheel_plat, Musllinux)
              /\ EndsWith(wheel_plat, arch)

\* pypi.py:38-40
is_pure(wheel) == AnyPlatform \in Range(wheel.platform_tags)

\* pypi.py:42-45
matches_platform(wheel, platform) ==
    \/ is_pure(wheel)
    \/ \E plat \in Range(wheel.platform_tags) : _platform_tag_matches(plat, platform)

\* downloader.py:204-210
_wheel_wanted(wheel, pyvers, plats) ==
    LET python_ok == \E pv \in Range(pyvers) : matches_python(wheel, pv)
        platform_ok == \E pl \in Range(plats) : matches_platform(wheel, pl)
    IN  python_ok /\ platform_ok

\* The selection without its fallback.
wanted_wheelsWithoutFallback(pkg, pyvers, plats) ==
    IF ~pkg.needs_wheels THEN <<>>
    ELSE SelectSeq(pkg.wheels, LAMBDA w : _wheel_wanted(w, pyvers, plats))

\* downloader.py:153-176: the wheels of one package download_wheels selects,
\* in the order of the release
wanted_wheels(pkg, pyvers, plats) ==
    IF ~pkg.needs_wheels THEN <<>>
    ELSE LET wanted == SelectSeq(pkg.wheels,
                                 LAMBDA w : _wheel_wanted(w, pyvers, plats))
             python_matches ==
                SelectSeq(pkg.wheels,
                          LAMBDA w : \E pv \in Range(pyvers) : matches_python(w, pv))
         IN  IF wanted = <<>> /\ pkg.wheels # <<>>
             THEN IF python_matches # <<>> THEN python_matches ELSE pkg.wheels
             ELSE wanted

(***************************************************************************)
(* downloader.download_wheels (downloader.py:136-256).                     *)
(*                                                                         *)
(* A filename is the directory part it carries (empty for a plain name,    *)
(* ".." segments for a traversal) and its stem; the path  files_dir /      *)
(* filename  is that record with the suffix of the file.  The bytes of a   *)
(* file are what was streamed into it: the body the server sent, right or  *)
(* not, and the number of chunks written.                                  *)
(***************************************************************************)
concurrency == 2

Cp312 == <<"c", "p", "3", "1", "2">>
Cp36 == <<"c", "p", "3", "6">>
Py2 == <<"p", "y", "2">>
NoAbi == <<"n", "o", "n", "e">>
Win32 == <<"w", "i", "n", "3", "2">>
I686 == <<"i", "6", "8", "6">>
LinuxI686 == Linux_ \o I686
Manylinux1I686 == Manylinux \o <<"1", "_">> \o I686

Filename(dir, dist, pyver, abi, plat) ==
    [dir |-> dir, dist |-> dist, pyver |-> pyver, abi |-> abi, plat |-> plat]

\* files_dir / wheel.filename, and dest.with_suffix(".tmp")
FilePath(filename, suffix) == [name |-> filename, suffix |-> suffix]
Dest(wheel) == FilePath(wheel.filename, ".whl")
Tmp(wheel) == FilePath(wheel.filename, ".tmp")

\* A path under <output>/files/
InFilesDir(path) == path.name.dir = <<>>

Body(filename, right, chunks) ==
    [of |-> filename, right |-> right, chunks |-> chunks]

\* The digest the registry reports for a file: that of its right bytes.
RegistryDigest(filename) == Sha256(Body(filename, TRUE, NChunks))

\* pypi.py:118-146: a WheelFile with its parsed tags; sha256 is the set of
\* the digest, empty for "".
TaggedWheel(dir, dist, pyver, abi, plat, has_digest) ==
    LET f == Filename(dir, dist, pyver, abi, plat)
    IN  [filename |-> f,
         sha256 |-> IF has_digest THEN {RegistryDigest(f)} ELSE {},
         python_tags |-> pyver, abi_tags |-> abi, platform_tags |-> plat]

\* The wheel lists of the releases of one project.
ReleaseFiles(dist) ==
    { <<>>,
      << TaggedWheel(<<>>, dist, <<Py3>>, <<NoAbi>>, <<AnyPlatform>>, TRUE) >>,
      << TaggedWheel(<<>>, dist, <<Cp312>>, <<Cp312>>, <<Manylinux1I686>>, TRUE),
         TaggedWheel(<<>>, dist, <<Cp312>>, <<Cp312>>, <<Win32>>, FALSE) >>,
      << TaggedWheel(<<>>, dist, <<Py2>>, <<NoAbi>>, <<Win32>>, TRUE),
         TaggedWheel(<<>>, dist, <<Cp36>>, <<Abi3>>, <<Win32>>, TRUE) >>,
      << TaggedWheel(<<>>, dist, <<Py2>>, <<NoAbi>>, <<Win32>>, FALSE) >>,
      << TaggedWheel(<<"..">>, dist, <<Py3>>, <<NoAbi>>, <<AnyPlatform>>, FALSE) >> }

DownloadPackage(dist, wheels, needs_wheels) ==
    [name |-> dist, wheels |-> wheels, needs_wheels |-> needs_wheels]

\* The closures handed to download_wheels: one package, or two with one
\* wheel each.
DownloadClosures ==
    LET first == { DownloadPackage("p", w, TRUE) : w \in ReleaseFiles("p") }
                 \cup { DownloadPackage("p", w, FALSE) :
                          w \in { r \in ReleaseFiles("p") : Len(r) = 2 } }
        second == DownloadPackage("q",
                    << TaggedWheel(<<>>, "q", <<Py3>>, <<NoAbi>>, <<AnyPlatform>>, TRUE) >>,
                    TRUE)
    IN  { <<a>> : a \in first }
        \cup { <<a, second>> : a \in { x \in first : Len(x.wheels) = 1 } }

DownloadTargets ==
    [pyvers : { << <<"3", ".", "1", "2">> >> },
     plats : { <<LinuxI686>>, <<LinuxI686, Win32>> }]

InitDownload ==
    /\ IdleResolve
    /\ IdleUpdate
    /\ IdleIndex
    /\ IdleClient
    /\ IdleServer
    /\ IdleTags
    /\ IdleMarker
    /\ d_resolved \in DownloadClosures
    /\ \E t \in DownloadTargets : d_pyvers = t.pyvers /\ d_plats = t.plats
    /\ fs = <<>>
    /\ pending = <<>>
    /\ task = <<>>
    /\ sem = 0
    /\ slot_queue = <<>>
    /\ dpc = "idle"
    /\ calls = 0
    /\ fs_at_start = <<>>
    /\ requested = {}

\* The pending list without the dest.exists() test.
RECURSIVE PendingWithoutSkip(_, _, _, _)
PendingWithoutSkip(pkgs, pyvers, plats, files) ==
    IF pkgs = <<>> THEN <<>>
    ELSE wanted_wheels(Head(pkgs), pyvers, plats)
         \o PendingWithoutSkip(Tail(pkgs), pyvers, plats, files)

\* downloader.py:152-182: the pending list
RECURSIVE Pending(_, _, _, _)
Pending(pkgs, pyvers, plats, files) ==
    IF pkgs = <<>> THEN <<>>
    ELSE SelectSeq(wanted_wheels(Head(pkgs), pyvers, plats),
                   LAMBDA wheel : Dest(wheel) \notin DOMAIN files)
         \o Pending(Tail(pkgs), pyvers, plats, files)

\* downloader.py:146-199: the pending list is built, and when it is not
\* empty the slots are queued and one _download_one per pending wheel is
\* handed to asyncio.gather.
StartDownloadWheels ==
    /\ dpc \in {"idle", "done"}
    /\ calls < MaxCalls
    /\ calls' = calls + 1
    /\ fs_at_start' = fs
    /\ requested' = {}
    /\ pending' = Pending(d_resolved, d_pyvers, d_plats, fs)
    /\ task' = [i \in 1..Len(pending') |-> [pc |-> "waiting", slot |-> -1, outcome |-> "none"]]
    /\ sem' = concurrency
    /\ slot_queue' = [i \in 1..concurrency |-> i - 1]
    /\ dpc' = IF pending' = <<>> THEN "done" ELSE "gather"
    /\ UNCHANGED <<d_resolved, d_pyvers, d_plats, fs>>
    /\ UNCHANGED notDownloadVars

\* The semaphore entered without waiting for a permit.
AcquireWithoutWaiting(i) ==
    /\ dpc = "gather"
    /\ task[i].pc = "waiting"
    /\ sem' = sem - 1
    /\ task' = [task EXCEPT ![i].pc = "slot"]
    /\ UNCHANGED <<d_resolved, d_pyvers, d_plats, fs, pending, slot_queue, dpc,
                   calls, fs_at_start, requested>>
    /\ UNCHANGED notDownloadVars

\* downloader.py:221-222: async with sem
Acquire(i) ==
    /\ dpc = "gather"
    /\ task[i].pc = "waiting"
    /\ sem > 0
    /\ sem' = sem - 1
    /\ task' = [task EXCEPT ![i].pc = "slot"]
    /\ UNCHANGED <<d_resolved, d_pyvers, d_plats, fs, pending, slot_queue, dpc,
                   calls, fs_at_start, requested>>
    /\ UNCHANGED notDownloadVars

\* downloader.py:223: slot = await slot_queue.get(), which waits while the
\* queue is empty
SlotQueueGet(i) ==
    /\ dpc = "gather"
    /\ task[i].pc = "slot"
    /\ slot_queue # <<>>
    /\ slot_queue' = Tail(slot_queue)
    /\ task' = [task EXCEPT ![i].pc = "request", ![i].slot = Head(slot_queue)]
    /\ UNCHANGED <<d_resolved, d_pyvers, d_plats, fs, pending, sem, dpc, calls,
                   fs_at_start, requested>>
    /\ UNCHANGED notDownloadVars

\* downloader.py:225-226: the GET fails in transport, or raise_for_status
\* raises
RequestFails(i) ==
    /\ dpc = "gather"
    /\ task[i].pc = "request"
    /\ requested' = requested \cup {pending[i].filename}
    /\ task' = [task EXCEPT ![i].pc = "finally", ![i].outcome = "error"]
    /\ UNCHANGED <<d_resolved, d_pyvers, d_plats, fs, pending, sem, slot_queue,
                   dpc, calls, fs_at_start>>
    /\ UNCHANGED notDownloadVars

\* downloader.py:225-232: the response arrives and the temp file is opened
\* for writing; the server sends the right bytes or other bytes.
OpenTmp(i) ==
    /\ dpc = "gather"
    /\ task[i].pc = "request"
    /\ requested' = requested \cup {pending[i].filename}
    /\ \E right \in BOOLEAN :
          fs' = Put(fs, Tmp(pending[i]), Body(pending[i].filename, right, 0))
    /\ task' = [task EXCEPT ![i].pc = "stream"]
    /\ UNCHANGED <<d_resolved, d_pyvers, d_plats, pending, sem, slot_queue,
                   dpc, calls, fs_at_start>>
    /\ UNCHANGED notDownloadVars

\* downloader.py:233-239
WriteChunk(i) ==
    /\ dpc = "gather"
    /\ task[i].pc = "stream"
    /\ fs[Tmp(pending[i])].chunks < NChunks
    /\ fs' = [fs EXCEPT ![Tmp(pending[i])].chunks = @ + 1]
    /\ UNCHANGED <<d_resolved, d_pyvers, d_plats, pending, task, sem, slot_queue,
                   dpc, calls, fs_at_start, requested>>
    /\ UNCHANGED notDownloadVars

\* downloader.py:233, 252-253: aiter_bytes raises; the except clause logs
StreamFails(i) ==
    /\ dpc = "gather"
    /\ task[i].pc = "stream"
    /\ task' = [task EXCEPT ![i].pc = "finally", ![i].outcome = "error"]
    /\ UNCHANGED <<d_resolved, d_pyvers, d_plats, fs, pending, sem, slot_queue,
                   dpc, calls, fs_at_start, requested>>
    /\ UNCHANGED notDownloadVars

\* The digest check left out: the temp file is always renamed.
CheckDigestWithoutCheck(i) ==
    /\ dpc = "gather"
    /\ task[i].pc = "stream"
    /\ fs[Tmp(pending[i])].chunks = NChunks
    /\ LET tmp == Tmp(pending[i])
       IN  fs' = Put(Restrict(fs, DOMAIN fs \ {tmp}), Dest(pending[i]), fs[tmp])
    /\ task' = [task EXCEPT ![i].pc = "finally", ![i].outcome = "stored"]
    /\ UNCHANGED <<d_resolved, d_pyvers, d_plats, pending, sem, slot_queue,
                   dpc, calls, fs_at_start, requested>>
    /\ UNCHANGED notDownloadVars

\* downloader.py:241-251
CheckDigest(i) ==
    /\ dpc = "gather"
    /\ task[i].pc = "stream"
    /\ fs[Tmp(pending[i])].chunks = NChunks
    /\ LET wheel == pending[i]
           tmp == Tmp(wheel)
           digest == Sha256(fs[tmp])
           unlinked == Restrict(fs, DOMAIN fs \ {tmp})
       IN  IF wheel.sha256 # {} /\ digest \notin wheel.sha256
           THEN /\ fs' = unlinked
                /\ task' = [task EXCEPT ![i].pc = "finally",
                                        ![i].outcome = "mismatch"]
           ELSE /\ fs' = Put(unlinked, Dest(wheel), fs[tmp])
                /\ task' = [task EXCEPT ![i].pc = "finally",
                                        ![i].outcome = "stored"]
    /\ UNCHANGED <<d_resolved, d_pyvers, d_plats, pending, sem, slot_queue,
                   dpc, calls, fs_at_start, requested>>
    /\ UNCHANGED notDownloadVars

\* The finally clause without slot_queue.put_nowait(slot).
ReleaseKeepingSlot(i) ==
    /\ dpc = "gather"
    /\ task[i].pc = "finally"
    /\ sem' = sem + 1
    /\ task' = [task EXCEPT ![i].pc = "finished"]
    /\ UNCHANGED <<d_resolved, d_pyvers, d_plats, fs, pending, slot_queue, dpc,
                   calls, fs_at_start, requested>>
    /\ UNCHANGED notDownloadVars

\* downloader.py:254-256 and the exit of async with sem
Release(i) ==
    /\ dpc = "gather"
    /\ task[i].pc = "finally"
    /\ slot_queue' = Append(slot_queue, task[i].slot)
    /\ sem' = sem + 1
    /\ task' = [task EXCEPT ![i].pc = "finished"]
    /\ UNCHANGED <<d_resolved, d_pyvers, d_plats, fs, pending, dpc, calls,
                   fs_at_start, requested>>
    /\ UNCHANGED notDownloadVars

\* downloader.py:199-201: gather returns
FinishDownloadWheels ==
    /\ dpc = "gather"
    /\ \A i \in 1..Len(task) : task[i].pc = "finished"
    /\ dpc' = "done"
    /\ UNCHANGED <<d_resolved, d_pyvers, d_plats, fs, pending, task, sem,
                   slot_queue, calls, fs_at_start, requested>>
    /\ UNCHANGED notDownloadVars

NextDownload ==
    \/ StartDownloadWheels
    \/ \E i \in 1..Len(task) : Acquire(i)
    \/ \E i \in 1..Len(task) : SlotQueueGet(i)
    \/ \E i \in 1..Len(task) : RequestFails(i)
    \/ \E i \in 1..Len(task) : OpenTmp(i)
    \/ \E i \in 1..Len(task) : WriteChunk(i)
    \/ \E i \in 1..Len(task) : StreamFails(i)
    \/ \E i \in 1..Len(task) : CheckDigest(i)
    \/ \E i \in 1..Len(task) : Release(i)
    \/ FinishDownloadWheels

SpecDownload == InitDownload /\ [][NextDownload]_vars

\* download_wheels on a closure with more pending wheels than permits:
\* one package more than `concurrency`, of one wheel each.  The last of the
\* MaxCalls calls is followed.
PoolClosure ==
    [k \in 1..(concurrency + 1) |->
        LET dist == CASE k = 1 -> "p" [] k = 2 -> "q" [] OTHER -> "r"
        IN  DownloadPackage(dist,
              << TaggedWheel(<<>>, dist, <<Py3>>, <<NoAbi>>, <<AnyPlatform>>, TRUE) >>,
              TRUE)]

InitDownloadPool ==
    /\ IdleResolve
    /\ IdleUpdate
    /\ IdleIndex
    /\ IdleClient
    /\ IdleServer
    /\ IdleTags
    /\ IdleMarker
    /\ d_resolved = PoolClosure
    /\ \E t \in DownloadTargets : d_pyvers = t.pyvers /\ d_plats = t.plats
    /\ fs = <<>>
    /\ pending = <<>>
    /\ task = <<>>
    /\ sem = 0
    /\ slot_queue = <<>>
    /\ dpc = "idle"
    /\ calls = MaxCalls - 1
    /\ fs_at_start = <<>>
    /\ requested = {}

SpecDownloadPool == InitDownloadPool /\ [][NextDownload]_vars

\* asyncio runs every coroutine that is ready, and every request ends: it is
\* answered, it fails, or it times out (downloader.py:194).
FairDownloadPool == SpecDownloadPool /\ WF_vars(NextDownload)

(***************************************************************************)
(* index.build_index called on a list of packages and an output directory  *)
(* (index.py:22-70).                                                       *)
(***************************************************************************)
MaxPkgs == 2        \* packages handed to build_index

\* The wheel lists of a release as fetch_release returns them: with or
\* without a digest.
IndexWheels(name, ver) ==
    LET f == WheelFilename(canonicalize_name(name), ver)
    IN  { <<>>,
          << WheelFile(f, {UpstreamUrl(f)}, {Sha256(Bytes(f))}) >>,
          << WheelFile(f, {UpstreamUrl(f)}, {}) >> }

IndexNames ==
    {Projects[1], <<"A", "_", ".", "b">>, Projects[2],
     <<"/", "e">>, <<".", ".", "/", "d">>}

IndexPackages ==
    UNION { { Package(n, v, w, nw) : w \in IndexWheels(n, v), nw \in BOOLEAN } :
              n \in IndexNames, v \in {V1, V2} }

\* The filenames of the wheels of a list of packages.
WheelNames(pkgs) ==
    { w.filename : w \in UNION { Range(pkgs[k].wheels) : k \in 1..Len(pkgs) } }

InitIndex ==
    /\ IdleResolve
    /\ IdleUpdate
    /\ IdleDownload
    /\ IdleClient
    /\ IdleServer
    /\ IdleTags
    /\ IdleMarker
    /\ i_pkgs \in SeqsUpTo(IndexPackages, MaxPkgs)
    /\ i_pkgs # <<>>
    /\ i_files \in UNION { [S -> {"right", "other"}] : S \in SUBSET WheelNames(i_pkgs) }
    /\ i_base_url \in BaseUrls
    /\ simple = <<>>
    /\ ipc = "idle"

\* The bytes of the files of <output>/files/.
FilesOnDisk ==
    [f \in DOMAIN i_files |->
        IF i_files[f] = "right" THEN Bytes(f) ELSE OtherBytes(f)]

\* index.py:22-70
BuildIndexCall ==
    /\ ipc = "idle"
    /\ LET order == ByNameOrder(i_pkgs)
           refused == { k \in 1..Len(order) : OutsideSimple(order[k]) }
           written == build_index(i_pkgs, FilesOnDisk, i_base_url)
       IN  IF refused = {}
           THEN /\ simple' = written
                /\ ipc' = "built"
           ELSE LET first == CHOOSE k \in refused : \A j \in refused : k <= j
                IN  /\ simple' = [d \in {TopLevel} \cup { order[k] : k \in 1..(first - 1) }
                                     |-> written[d]]
                    /\ ipc' = "raised"
    /\ UNCHANGED <<i_pkgs, i_files, i_base_url>>
    /\ UNCHANGED notIndexVars

NextIndex == BuildIndexCall

SpecIndex == InitIndex /\ [][NextIndex]_vars

(***************************************************************************)
(* WheelFile.matches_python and WheelFile.matches_platform on wheels and   *)
(* targets of every form (pypi.py:38-115).                                 *)
(***************************************************************************)
PythonTagLists ==
    { <<Py3>>, <<Cp3>>, <<Cp312>>, <<Cp36>>, <<Py2>>,
      << <<"p", "y", "3", "1", "2">> >>, << <<"c", "p", "2", "7">> >>,
      << <<"c", "p", "3", "x">> >>, <<Cp36, Cp312>>, <<Py2, Py3>> }

AbiTagLists == { <<NoAbi>>, <<Abi3>>, <<Cp312, Abi3>> }

PlatformTagLists ==
    { <<AnyPlatform>>, <<Manylinux1I686>>, <<Win32>>, <<LinuxI686>>,
      << Musllinux \o <<"_", "1", "_", "1", "_">> \o I686 >>,
      << Manylinux \o <<"1", "_", "x", "8", "6">> >>,
      << <<"m", "a", "c", "o", "s", "x", "_">> \o I686 >>,
      <<Win32, Manylinux1I686>> }

\* config.py:18: python_versions
TargetVersions ==
    { <<"3", ".", "1", "2">>, <<"3", ".", "6">>, <<"3", ".", "5">>,
      <<"2", ".", "7">> }

\* config.py:20-21: platforms
TargetPlatforms ==
    { LinuxI686, Win32, AnyPlatform, Linux_ \o <<"6", "8", "6">> }

InitTags ==
    /\ IdleResolve
    /\ IdleUpdate
    /\ IdleDownload
    /\ IdleIndex
    /\ IdleClient
    /\ IdleServer
    /\ IdleMarker
    /\ t_wheel \in [python_tags : PythonTagLists, abi_tags : AbiTagLists,
                     platform_tags : PlatformTagLists]
    /\ t_python_version \in TargetVersions
    /\ t_platform \in TargetPlatforms
    /\ t_matches_python = {}
    /\ t_matches_platform = {}

\* pypi.py:47-77
CallMatchesPython ==
    /\ t_matches_python = {}
    /\ t_matches_python' = {matches_python(t_wheel, t_python_version)}
    /\ UNCHANGED <<t_wheel, t_python_version, t_platform, t_matches_platform>>
    /\ UNCHANGED notTagVars

\* pypi.py:42-45
CallMatchesPlatform ==
    /\ t_matches_platform = {}
    /\ t_matches_platform' = {matches_platform(t_wheel, t_platform)}
    /\ UNCHANGED <<t_wheel, t_python_version, t_platform, t_matches_python>>
    /\ UNCHANGED notTagVars

NextTags == CallMatchesPython \/ CallMatchesPlatform

SpecTags == InitTags /\ [][NextTags]_vars

(***************************************************************************)
(* pypi._dep_reachable on markers and target lists of every form           *)
(* (pypi.py:149-195, 377-383).                                             *)
(***************************************************************************)
MarkerForms ==
    { NoMarker, "win32", "darwin", "python_version < '3.12'",
      "sys_platform == 'win32' and python_version < '3.12'", "os_name == 'nt'",
      "raises", "raises on nt" }

NonEmptySeqsUpTo(S, n) == SeqsUpTo(S, n) \ {<<>>}

InitMarker ==
    /\ IdleResolve
    /\ IdleUpdate
    /\ IdleDownload
    /\ IdleIndex
    /\ IdleClient
    /\ IdleServer
    /\ IdleTags
    /\ m_marker \in MarkerForms
    /\ m_python_versions \in NonEmptySeqsUpTo({"3.11", "3.12"}, MaxTargets)
    /\ m_platforms \in
          NonEmptySeqsUpTo({"linux_x86_64", "win_amd64", "macosx_11_0_arm64"},
                           MaxTargets)
    /\ m_reachable = {}

\* pypi.py:377-383
CallDepReachable ==
    /\ m_reachable = {}
    /\ m_reachable' =
          {_dep_reachable([marker |-> m_marker], m_python_versions, m_platforms)}
    /\ UNCHANGED <<m_marker, m_python_versions, m_platforms>>
    /\ UNCHANGED notMarkerVars

NextMarker == CallDepReachable

SpecMarker == InitMarker /\ [][NextMarker]_vars

(***************************************************************************)
(* server.MirrorHandler (server.py:31-124).  A path is the sequence of its *)
(* characters; the escape %2F is one element, which unquote turns into "/".*)
(***************************************************************************)
\* The mirror directory the server is started on, resolved.
MirrorDir == <<"/", "m">>

\* server.py:34-35
ServerSimpleDir == MirrorDir \o <<"/", "s", "i", "m", "p", "l", "e">>
ServerFilesDir == MirrorDir \o <<"/", "f", "i", "l", "e", "s">>

DotWhl == <<".", "w", "h", "l">>
IndexJson == <<"/", "i", "n", "d", "e", "x", ".", "j", "s", "o", "n">>

\* The files that may be on the disk: a wheel and a tarball in files/, a
\* wheel next to files/, a wheel in the sibling directory files2/, and the
\* pages of simple/.
DiskPaths ==
    { ServerFilesDir \o <<"/", "a">> \o DotWhl,
      ServerFilesDir \o <<"/", "a", ".", "g", "z">>,
      MirrorDir \o <<"/", "s">> \o DotWhl,
      ServerFilesDir \o <<"2", "/", "a">> \o DotWhl,
      ServerSimpleDir \o IndexJson,
      ServerSimpleDir \o <<"/", "a", "-", "b">> \o IndexJson }

\* The bytes of the file at a path.
Content(path) == [content_of |-> path]

\* The filenames requested under /files/.
RequestedNames ==
    { <<>>,
      <<"a">> \o DotWhl,
      <<"a">> \o DotWhl \o <<"/">>,
      <<"b">> \o DotWhl,
      <<"a", ".", "g", "z">>,
      <<".", ".", "/", "s">> \o DotWhl,
      <<".", ".", "%2F", "s">> \o DotWhl,
      <<".", ".", "/", "f", "i", "l", "e", "s", "2", "/", "a">> \o DotWhl,
      <<".", ".", "/", "s", "i", "m", "p", "l", "e">> \o IndexJson,
      <<"/", "m", "/", "s">> \o DotWhl }

FilesRoute == <<"/", "f", "i", "l", "e", "s", "/">>
SimpleRoute == <<"/", "s", "i", "m", "p", "l", "e">>

\* self.path of the requests sent to the server.
Requests ==
    { FilesRoute \o f : f \in RequestedNames }
        \cup { SimpleRoute, SimpleRoute \o <<"/">>,
               SimpleRoute \o <<"/", "A", "_", "b">>,
               SimpleRoute \o <<"/", "c">>,
               SimpleRoute \o <<"/", "c", "/", "d">>,
               <<"/", "x">> }

\* urllib.parse.unquote
unquote(path) == [i \in 1..Len(path) |-> IF path[i] = "%2F" THEN "/" ELSE path[i]]

\* str.rstrip("/")
RECURSIVE rstrip(_)
rstrip(path) ==
    IF path # <<>> /\ path[Len(path)] = "/"
    THEN rstrip(SubSeq(path, 1, Len(path) - 1))
    ELSE path

\* Path.resolve on the components of a path: "." and ".." are taken out.
RECURSIVE Normalize(_, _)
Normalize(parts, acc) ==
    IF parts = <<>> THEN acc
    ELSE IF Head(parts) = <<".", ".">>
    THEN Normalize(Tail(parts),
                   IF acc = <<>> THEN <<>> ELSE SubSeq(acc, 1, Len(acc) - 1))
    ELSE IF Head(parts) = <<".">> THEN Normalize(Tail(parts), acc)
    ELSE Normalize(Tail(parts), Append(acc, Head(parts)))

\* str(path) of a list of components
RECURSIVE PathStr(_)
PathStr(parts) ==
    IF parts = <<>> THEN <<>> ELSE <<"/">> \o Head(parts) \o PathStr(Tail(parts))

\* server.py:109: (self.files_dir / filename).resolve(), as its string.  An
\* absolute filename replaces files_dir.
ResolvedFile(filename) ==
    PathStr(Normalize(
        IF filename # <<>> /\ filename[1] = "/" THEN Parts(filename)
        ELSE Parts(ServerFilesDir) \o Parts(filename), <<>>))

send_error(status) == [status |-> status, body |-> {}]

\* server.py:66-80
serve_simple_index(files) ==
    LET index_file == ServerSimpleDir \o IndexJson
    IN  IF index_file \notin DOMAIN files THEN send_error(503)
        ELSE [status |-> 200, body |-> {files[index_file]}]

\* server.py:82-99
serve_project_detail(project, files) ==
    LET index_file == ServerSimpleDir \o <<"/">> \o canonicalize_name(project)
                          \o IndexJson
    IN  IF index_file \notin DOMAIN files THEN send_error(404)
        ELSE [status |-> 200, body |-> {files[index_file]}]

\* serve_file without the test of the suffix.
serve_fileOfAnySuffix(filename, files) ==
    LET path == ResolvedFile(filename)
    IN  IF ~StartsWith(path, ServerFilesDir) THEN send_error(400)
        ELSE IF path \notin DOMAIN files THEN send_error(404)
        ELSE [status |-> 200, body |-> {files[path]}]

\* server.py:101-124
serve_file(filename, files) ==
    IF ~EndsWith(filename, DotWhl) THEN send_error(400)
    ELSE LET path == ResolvedFile(filename)
         IN  IF ~StartsWith(path, ServerFilesDir) THEN send_error(400)
             ELSE IF path \notin DOMAIN files THEN send_error(404)
             ELSE [status |-> 200, body |-> {files[path]}]

\* server.py:45-64
do_GET(self_path, files) ==
    LET path == rstrip(unquote(self_path))
    IN  IF path = SimpleRoute THEN serve_simple_index(files)
        ELSE IF StartsWith(path, SimpleRoute \o <<"/">>)
        THEN LET project == SubSeq(path, Len(SimpleRoute) + 2, Len(path))
             IN  IF \E i \in 1..Len(project) : project[i] = "/"
                 THEN send_error(404)
                 ELSE serve_project_detail(project, files)
        ELSE IF StartsWith(path, FilesRoute)
        THEN serve_file(SubSeq(path, Len(FilesRoute) + 1, Len(path)), files)
        ELSE send_error(404)

InitServer ==
    /\ IdleResolve
    /\ IdleUpdate
    /\ IdleDownload
    /\ IdleIndex
    /\ IdleClient
    /\ IdleTags
    /\ IdleMarker
    /\ s_fs \in { [p \in S |-> Content(p)] : S \in SUBSET DiskPaths }
    /\ s_path = <<>>
    /\ s_response = [status |-> 0, body |-> {}]

\* A GET request is handled.
HandleRequest ==
    /\ \E path \in Requests :
          /\ s_path' = path
          /\ s_response' = do_GET(path, s_fs)
    /\ UNCHANGED s_fs
    /\ UNCHANGED notServerVars

NextServer == HandleRequest

SpecServer == InitServer /\ [][NextServer]_vars

(***************************************************************************)
(* pypi.PyPIClient: the fetches of one BFS round of resolve(), each under  *)
(* the client's semaphore (pypi.py:196-275, 300-352).                      *)
(***************************************************************************)
\* The concurrency the client is constructed with.
Concurrencies == {1, 2}

InitClient ==
    /\ IdleResolve
    /\ IdleUpdate
    /\ IdleDownload
    /\ IdleIndex
    /\ IdleServer
    /\ IdleTags
    /\ IdleMarker
    /\ c_concurrency \in Concurrencies
    /\ _sem = c_concurrency
    /\ fetches = <<>>
    /\ cpc = "idle"

Fetch(kind) == [kind |-> kind, pc |-> "start", result |-> "none"]

\* pypi.py:300-324: the fetch_release coroutines of a round are created and
\* gathered.
GatherFetchRelease ==
    /\ cpc = "idle"
    /\ \E n \in 1..MaxFetch : fetches' = [i \in 1..n |-> Fetch("fetch_release")]
    /\ cpc' = "releases"
    /\ UNCHANGED <<c_concurrency, _sem>>
    /\ UNCHANGED notClientVars

\* async with self._sem, entered without waiting for a permit.
EnterSemWithoutWaiting(i) ==
    /\ cpc \in {"releases", "dependencies"}
    /\ i \in DOMAIN fetches
    /\ fetches[i].pc = "start"
    /\ _sem' = _sem - 1
    /\ fetches' = [fetches EXCEPT ![i].pc = "request"]
    /\ UNCHANGED <<c_concurrency, cpc>>
    /\ UNCHANGED notClientVars

\* pypi.py:222, 258: async with self._sem
EnterSem(i) ==
    /\ cpc \in {"releases", "dependencies"}
    /\ i \in DOMAIN fetches
    /\ fetches[i].pc = "start"
    /\ _sem > 0
    /\ _sem' = _sem - 1
    /\ fetches' = [fetches EXCEPT ![i].pc = "request"]
    /\ UNCHANGED <<c_concurrency, cpc>>
    /\ UNCHANGED notClientVars

\* pypi.py:223-232, 259-265: the response, or the error, of the GET; the
\* semaphore is released on either way out of the with block.
Response(i) ==
    /\ cpc \in {"releases", "dependencies"}
    /\ i \in DOMAIN fetches
    /\ fetches[i].pc = "request"
    /\ \E result \in {"ok", "error"} :
          fetches' = [fetches EXCEPT ![i].pc = "done", ![i].result = result]
    /\ _sem' = _sem + 1
    /\ UNCHANGED <<c_concurrency, cpc>>
    /\ UNCHANGED notClientVars

AllDone == \A i \in DOMAIN fetches : fetches[i].pc = "done"

\* pypi.py:324-352: gather returns; one fetch_dependencies coroutine per
\* release that was fetched, gathered in turn.
GatherFetchDependencies ==
    /\ cpc = "releases"
    /\ AllDone
    /\ LET n == Cardinality({ i \in DOMAIN fetches : fetches[i].result = "ok" })
       IN  fetches' = [i \in 1..n |-> Fetch("fetch_dependencies")]
    /\ cpc' = "dependencies"
    /\ UNCHANGED <<c_concurrency, _sem>>
    /\ UNCHANGED notClientVars

\* pypi.py:352-374: the round ends
EndGather ==
    /\ cpc = "dependencies"
    /\ AllDone
    /\ fetches' = <<>>
    /\ cpc' = "idle"
    /\ UNCHANGED <<c_concurrency, _sem>>
    /\ UNCHANGED notClientVars

NextClient ==
    \/ GatherFetchRelease
    \/ \E i \in 1..MaxFetch : EnterSem(i)
    \/ \E i \in 1..MaxFetch : Response(i)
    \/ GatherFetchDependencies
    \/ EndGather

SpecClient == InitClient /\ [][NextClient]_vars

(***************************************************************************)
(* Properties of resolve().                                                *)
(***************************************************************************)
Reachable(req) == _dep_reachable(req, python_versions, platforms)

Roots == { canonicalize_name(packages[i]) : i \in 1..Len(packages) }

\* The requirements of p that fetch_dependencies returned.
ReqsOf(p) == IF p \in DOMAIN requires_dist THEN Range(requires_dist[p]) ELSE {}

\* C1: once the stored package of a name has needs_wheels = true, every
\* later state of the run stores that name with needs_wheels = true.
C1_MonotoneNeedsWheels ==
    [][\A n \in DOMAIN resolved :
          resolved[n].needs_wheels =>
              n \in DOMAIN resolved' /\ resolved'[n].needs_wheels]_vars

\* A package serves wheels although a requirement that classifies it as
\* metadata-only has been processed.
C1_Witness ==
    /\ rpc = "done"
    /\ \E n \in DOMAIN resolved :
          /\ resolved[n].needs_wheels
          /\ n \notin Roots
          /\ \E p \in DOMAIN resolved : \E r \in ReqsOf(p) :
                canonicalize_name(r.name) = n /\ ~Reachable(r)

\* C2: a package that was put on the frontier with needs_wheels = true at
\* least once ends the run with needs_wheels = true, whatever the order in
\* which the frontier items of its name are drained.
C2_ReReachKeepsWheels ==
    rpc = "done" =>
        \A n \in DOMAIN resolved :
            n \in frontier_true => resolved[n].needs_wheels

\* The packages reachable from a root along requirements that have no marker
\* or a marker reachable on some target.
RECURSIVE TargetServing(_)
TargetServing(S) ==
    LET more == { canonicalize_name(r.name) :
                    r \in { q \in UNION { ReqsOf(p) : p \in S } : Reachable(q) } }
    IN  IF more \subseteq S THEN S ELSE TargetServing(S \cup more)

AllFetchesSucceeded == no_release = {} /\ deps_failed = {}

\* C3: when resolve() ends with all fetches successful, every package
\* reachable from a root along reachable requirements has needs_wheels = true.
C3_TargetServingComplete ==
    (rpc = "done" /\ AllFetchesSucceeded) =>
        \A n \in TargetServing(Roots) :
            n \in DOMAIN resolved /\ resolved[n].needs_wheels

ReleaseWasNone ==
    rpc = "record" /\ idx' = idx + 1 /\ dep_meta' = dep_meta

\* C5: when fetch_release returns None for a name, no entry is added for it,
\* it leaves in_flight and resolve() goes on; when resolve() returns, no
\* frontier item is left and every name is either in the closure or is one
\* that fetch_release returned None for.
C5_MissingMetadataIsDropped ==
    /\ [][ReleaseWasNone =>
            /\ batch[idx].name \notin DOMAIN resolved'
            /\ batch[idx].name \notin in_flight'
            /\ rpc' = "record" /\ queue' = queue /\ batch' = batch]_vars
    /\ [](rpc = "done" =>
            /\ queue = <<>>
            /\ Mentioned \subseteq DOMAIN resolved \cup no_release)

\* A run has ended with a closure although a release was missing.
C5_Witness ==
    /\ rpc = "done"
    /\ no_release # {}
    /\ \E n \in DOMAIN resolved : n \notin Roots
    /\ \E n \in no_release : n \notin DOMAIN resolved

\* C6: resolve() terminates, and it ends with an empty frontier and nothing
\* in flight.
C6_Terminates ==
    /\ <>(rpc = "done")
    /\ [](rpc = "done" => queue = <<>> /\ in_flight = {})

\* A run has ended on a registry with a dependency cycle and a failed fetch.
C6_Witness ==
    /\ rpc = "done"
    /\ no_release \cup deps_failed # {}
    /\ \E p \in DOMAIN resolved : \E r \in ReqsOf(p) :
          canonicalize_name(r.name) \in Roots

(***************************************************************************)
(* Properties of run_update().                                             *)
(***************************************************************************)
\* C7: at every moment of a run_update execution, an interrupted or failed
\* one included, the live mirror is entirely the pre-update tree or entirely
\* the staged post-update tree, never absent in between or partially
\* populated.
C7_AtomicSwap ==
    runs > 0 => mirror = pre_mirror \/ mirror = staged

\* The positions of run_update before apply_update has touched the mirror.
BeforeApply ==
    {"resolve", "download", "preserve", "index", "archive", "diff", "write",
     "apply"}

\* C8: when run_update fails at a step before apply_update starts, the live
\* mirror is unchanged and the staging directory has been removed.
C8_FailureBeforeApplyLeavesMirror ==
    upc = "failed" /\ failed_at \in BeforeApply =>
        mirror = pre_mirror /\ staging = Absent

\* A run over a populated mirror has failed while the diff package was
\* written, with new wheels staged.
C8_Witness ==
    /\ upc = "failed"
    /\ failed_at = "write"
    /\ pre_mirror.exists
    /\ DOMAIN pre_mirror.files # {}
    /\ diff.added_wheels # {}
    /\ mirror = pre_mirror
    /\ staging = Absent

\* A mirror whose project list names exactly its project pages.
CompleteIndex(tree) ==
    /\ TopLevel \in DOMAIN tree.simple
    /\ Range(tree.simple[TopLevel].projects) = DOMAIN tree.simple \ {TopLevel}

\* C9: applying the emitted diff package to a copy of the archived pre-state
\* yields the wheel files and the index files, with their SHA-256, of the
\* staged post-update tree, also when an index file of the pre-state is not
\* in the post-state.  The pre-update mirror is a complete one, the
\* archive is the copy of it this run made and the package directory holds
\* what this run wrote.
C9_DiffClosure ==
    /\ upc = "apply"
    /\ timestamp \in DOMAIN archives /\ timestamp \in DOMAIN diffs
    /\ archives[timestamp] = (IF mirror.exists THEN mirror ELSE EmptyDir)
    /\ mirror.exists => CompleteIndex(mirror)
    /\ diffs[timestamp] = write_diff_package(staging, diff, NoPackage, timestamp)
    =>  LET applied == ApplyDiffPackage(archives[timestamp], diffs[timestamp])
        IN  /\ DOMAIN applied.files = DOMAIN staging.files
            /\ _index_content_map(applied) = _index_content_map(staging)

\* C10: after a successful run_update every wheel of the pre-update mirror
\* is in the post-update mirror under the same filename, whether or not
\* the fresh closure still contains it.
C10_OldWheelsPreserved ==
    upc = "done" =>
        \A f \in DOMAIN pre_mirror.files :
            f \in DOMAIN mirror.files /\ mirror.files[f] = pre_mirror.files[f]

\* A run has succeeded whose closure no longer contains a wheel of the
\* pre-update mirror, and that has stored a newer wheel of the same project.
C10_Witness ==
    /\ upc = "done"
    /\ \E f \in DOMAIN pre_mirror.files :
          /\ f \notin known_wheels(u_resolved)
          /\ f \in DOMAIN mirror.files
          /\ \E g \in DOMAIN mirror.files \ DOMAIN pre_mirror.files :
                g.dist = f.dist

\* C11: when the (complete) mirror holds a wheel the fresh closure no longer
\* selects and the rerun has downloaded a different wheel of the project
\* instead, the diff run_update
\* computes has the new wheel in added_wheels and the old one in
\* removed_wheels, and APPLY.md removes the old wheel.
C11_UpdateWithRemoval ==
    upc = "apply" /\ timestamp \in DOMAIN diffs /\ CompleteIndex(mirror) =>
        \A old \in DOMAIN mirror.files : \A new \in DOMAIN staging.files :
            /\ old \notin SelectedWheels(u_resolved)
            /\ new.dist = old.dist
            /\ new \in SelectedWheels(u_resolved)
            /\ new \notin DOMAIN mirror.files
            =>  /\ new \in diff.added_wheels
                /\ old \in diff.removed_wheels
                /\ old \in diffs[timestamp].apply_md[3].args

(***************************************************************************)
(* Properties of download_wheels().                                        *)
(***************************************************************************)
\* The wheels of the closure handed to download_wheels.
ClosureWheels ==
    UNION { Range(d_resolved[k].wheels) : k \in 1..Len(d_resolved) }

\* C12: after download_wheels every final file whose WheelFile carries a
\* registry digest has that SHA-256; a download whose bytes hash to another
\* value leaves no final file and no temp file, and the other downloads go
\* on and the call returns.
C12_HashOrReject ==
    /\ [](dpc = "done" =>
            \A wheel \in ClosureWheels :
                Dest(wheel) \in DOMAIN fs /\ wheel.sha256 # {} =>
                    Sha256(fs[Dest(wheel)]) \in wheel.sha256)
    /\ [][\A i \in 1..Len(task) :
            /\ task[i].pc = "stream"
            /\ task'[i].pc = "finally"
            /\ fs[Tmp(pending[i])].chunks = NChunks
            /\ fs' # fs
            /\ pending[i].sha256 # {}
            /\ Sha256(fs[Tmp(pending[i])]) \notin pending[i].sha256
            =>  /\ Dest(pending[i]) \notin DOMAIN fs'
                /\ Tmp(pending[i]) \notin DOMAIN fs'
                /\ dpc' = "gather"
                /\ \A j \in 1..Len(task) \ {i} : task'[j] = task[j]]_vars
    /\ [](dpc = "done" =>
            \A i \in 1..Len(task) :
                /\ task[i].pc = "finished"
                /\ task[i].outcome = "mismatch" =>
                      Dest(pending[i]) \notin DOMAIN fs /\ Tmp(pending[i]) \notin DOMAIN fs)

\* A call has returned in which one download was rejected for its digest and
\* another one was stored.
C12_Witness ==
    /\ dpc = "done"
    /\ \E i, j \in 1..Len(task) :
          /\ task[i].outcome = "mismatch"
          /\ Dest(pending[i]) \notin DOMAIN fs
          /\ task[j].outcome = "stored"
          /\ pending[j].sha256 # {}
          /\ Dest(pending[j]) \in DOMAIN fs

\* C14: download_wheels never enqueues and never requests a wheel whose
\* filename has a path separator or a ".." segment, and writes no temp or
\* final file outside <output>/files/.
C14_NoTraversalDownload ==
    /\ \A i \in 1..Len(pending) : pending[i].filename.dir = <<>>
    /\ \A f \in requested : f.dir = <<>>
    /\ \A path \in DOMAIN fs : InFilesDir(path)

\* C15: when a download has failed with a transport or HTTP error, before
\* the first chunk or after some chunks, then once _download_one has
\* returned neither its temp file nor its final file exists.
C15_TransportFailureCleanup ==
    \A i \in 1..Len(task) :
        task[i].pc = "finished" /\ task[i].outcome = "error" =>
            /\ Tmp(pending[i]) \notin DOMAIN fs
            /\ Dest(pending[i]) \notin DOMAIN fs

\* The final files of the output directory.
FinalFiles(files) == { path \in DOMAIN files : path.suffix = ".whl" }

\* C16: download_wheels requests no wheel whose final file existed when the
\* call started, and every final file that existed then is still there with
\* the same bytes.
C16_AppendOnly ==
    calls > 0 =>
        /\ \A f \in requested : FilePath(f, ".whl") \notin DOMAIN fs_at_start
        /\ \A path \in FinalFiles(fs_at_start) :
              path \in DOMAIN fs /\ fs[path] = fs_at_start[path]

\* A second call has skipped a wheel stored by the first one and has stored
\* another wheel.
C16_Witness ==
    /\ calls = 2
    /\ dpc = "done"
    /\ \E w \in ClosureWheels :
          /\ Dest(w) \in DOMAIN fs_at_start
          /\ w.filename \notin requested
    /\ \E i \in 1..Len(task) :
          task[i].outcome = "stored" /\ Dest(pending[i]) \notin DOMAIN fs_at_start

\* The selection as the specification states it, on sets.
WantedSet(pkg) ==
    { w \in Range(pkg.wheels) :
        /\ \E pv \in Range(d_pyvers) : matches_python(w, pv)
        /\ \E pl \in Range(d_plats) : matches_platform(w, pl) }

RuntimeOnlySet(pkg) ==
    { w \in Range(pkg.wheels) : \E pv \in Range(d_pyvers) : matches_python(w, pv) }

Selection(pkg) ==
    IF ~pkg.needs_wheels THEN {}
    ELSE IF WantedSet(pkg) # {} THEN WantedSet(pkg)
    ELSE IF RuntimeOnlySet(pkg) # {} THEN RuntimeOnlySet(pkg)
    ELSE Range(pkg.wheels)

\* C17: for every package the wheels download_wheels selects (those it puts
\* on the pending list, and those it skips because their file exists) are
\* the wanted wheels if there are any, else the wheels matching a target
\* runtime version if there are any, else all wheels of the release; a
\* package that needs wheels and has one has one selected, a metadata-only
\* package has none.
C17_SelectionWithFallback ==
    calls > 0 =>
        \A k \in 1..Len(d_resolved) :
            LET pkg == d_resolved[k]
                selected == { w \in Range(pkg.wheels) :
                                \/ w \in Range(pending)
                                \/ /\ Dest(w) \in DOMAIN fs_at_start
                                   /\ w \in Range(wanted_wheels(pkg, d_pyvers, d_plats)) }
                enqueued == Range(pending) \cap Range(pkg.wheels)
            IN  /\ enqueued = { w \in Selection(pkg) : Dest(w) \notin DOMAIN fs_at_start }
                /\ selected = Selection(pkg)
                /\ pkg.needs_wheels /\ pkg.wheels # <<>> => selected # {}
                /\ ~pkg.needs_wheels => enqueued = {}

\* A call has selected, for want of a wanted wheel, the one wheel of a
\* release that matches a target runtime version.
C17_Witness ==
    /\ calls = 1
    /\ \E k \in 1..Len(d_resolved) :
          LET pkg == d_resolved[k]
          IN  /\ pkg.needs_wheels
              /\ WantedSet(pkg) = {}
              /\ RuntimeOnlySet(pkg) # {}
              /\ RuntimeOnlySet(pkg) # Range(pkg.wheels)
              /\ Range(pending) = RuntimeOnlySet(pkg)

(***************************************************************************)
(* Properties of build_index().                                            *)
(***************************************************************************)
\* The file entries of the project-detail pages written.
DetailPages == DOMAIN simple \ {TopLevel}
Entries(d) == Range(simple[d].files)
AllEntries == UNION { Entries(d) : d \in DetailPages }

\* A URL of the form {base_url}/files/{f} or ../../files/{f}
IsMirrorUrl(e) == \E b \in BaseUrls : e.url = {MirrorUrl(b, e.filename)}

\* The wheels of the packages with needs_wheels = true whose file is absent,
\* with the position of the package in the list.
AbsentWheels ==
    { <<k, w>> \in (1..Len(i_pkgs)) \X UNION { Range(i_pkgs[j].wheels) :
                                                 j \in 1..Len(i_pkgs) } :
        /\ w \in Range(i_pkgs[k].wheels)
        /\ i_pkgs[k].needs_wheels
        /\ w.filename \notin DOMAIN i_files }

LocalEntriesExist ==
    \A e \in AllEntries : IsMirrorUrl(e) => e.filename \in DOMAIN i_files

\* C13 as stated: after build_index every file entry with a local mirror URL
\* names a file that exists under files/, and a wheel of a needs_wheels =
\* true package whose file is absent has no entry at all.
C13_IndexHonesty ==
    ipc = "built" =>
        /\ LocalEntriesExist
        /\ \A kw \in AbsentWheels :
              \A e \in AllEntries : e.filename # kw[2].filename

\* C13 as amended: ... a wheel of a needs_wheels = true package whose file
\* is absent has no entry in the detail page of its project, unless a
\* needs_wheels = false package of the same project that precedes it in the
\* list carries a wheel of the same filename: the entry is then the upstream
\* entry of that wheel.
C13_IndexHonestyAmended ==
    ipc = "built" =>
        /\ LocalEntriesExist
        /\ \A kw \in AbsentWheels :
              \A e \in Entries(canonicalize_name(i_pkgs[kw[1]].name)) :
                  e.filename = kw[2].filename =>
                      \E j \in 1..(kw[1] - 1) :
                          /\ ~i_pkgs[j].needs_wheels
                          /\ canonicalize_name(i_pkgs[j].name) =
                                canonicalize_name(i_pkgs[kw[1]].name)
                          /\ \E w \in Range(i_pkgs[j].wheels) :
                                /\ w.filename = e.filename
                                /\ e.url = w.url
                                /\ e.hashes = w.sha256

\* An index has been built that leaves out the wheel of a needs_wheels
\* package whose file is absent and lists a stored wheel with a local URL.
C13_Witness ==
    /\ ipc = "built"
    /\ \E kw \in AbsentWheels : \A e \in AllEntries : e.filename # kw[2].filename
    /\ \E e \in AllEntries : IsMirrorUrl(e) /\ e.filename \in DOMAIN i_files

\* The wheels of the packages with the given needs_wheels, with the
\* position of the package in the list.
WheelsOf(needs_wheels) ==
    { <<k, w>> \in (1..Len(i_pkgs)) \X UNION { Range(i_pkgs[j].wheels) :
                                                 j \in 1..Len(i_pkgs) } :
        /\ w \in Range(i_pkgs[k].wheels)
        /\ i_pkgs[k].needs_wheels = needs_wheels }

\* A package of the same project, earlier in the list, has a wheel of the
\* same filename.
Shadowed(kw) ==
    \E j \in 1..(kw[1] - 1) :
        /\ canonicalize_name(i_pkgs[j].name) = canonicalize_name(i_pkgs[kw[1]].name)
        /\ \E w \in Range(i_pkgs[j].wheels) : w.filename = kw[2].filename

EntriesFor(kw) ==
    { e \in Entries(canonicalize_name(i_pkgs[kw[1]].name)) :
        e.filename = kw[2].filename }

\* C18: for a wheel of a needs_wheels = true package whose file is in
\* files/, the sha256 of its entry is the registry digest when that is not
\* empty, whatever the bytes on disk, and the digest of the file when it is.
C18_HashSourceOfLocalEntry ==
    ipc = "built" =>
        \A kw \in WheelsOf(TRUE) :
            kw[2].filename \in DOMAIN i_files /\ ~Shadowed(kw) =>
                \A e \in EntriesFor(kw) :
                    e.hashes = IF kw[2].sha256 # {} THEN kw[2].sha256
                               ELSE {Sha256(FilesOnDisk[kw[2].filename])}

\* The entry of a metadata-only wheel: its upstream URL, its registry digest.
PassThrough(w) == [filename |-> w.filename, url |-> w.url, hashes |-> w.sha256]

IsCanonical(name) ==
    /\ \A i \in 1..Len(name) : name[i] \notin {"A", "_", "."}
    /\ \A i \in 1..(Len(name) - 1) : ~(name[i] = "-" /\ name[i + 1] = "-")

\* C20: after build_index simple/index.json lists one project per distinct
\* canonical name, ascending, and each has its directory with a detail page;
\* packages whose names differ by case or separators are one project.
C20_CanonicalProjectList ==
    ipc = "built" =>
        LET projects == simple[TopLevel].projects
            names == { canonicalize_name(i_pkgs[k].name) : k \in 1..Len(i_pkgs) }
        IN  /\ Range(projects) = names
            /\ \A p \in Range(projects) : IsCanonical(p)
            /\ \A i, j \in 1..Len(projects) : i < j => StrLess(projects[i], projects[j])
            /\ DetailPages = names
            /\ \A d \in DetailPages : simple[d].name = d
            /\ \A k \in 1..Len(i_pkgs) :
                  i_pkgs[k].name \in {Projects[1], <<"A", "_", ".", "b">>} =>
                      Projects[1] \in DetailPages

\* An index has been built for two packages whose names differ by case and
\* separators only.
C20_Witness ==
    /\ ipc = "built"
    /\ Len(i_pkgs) = 2
    /\ i_pkgs[1].name # i_pkgs[2].name
    /\ canonicalize_name(i_pkgs[1].name) = canonicalize_name(i_pkgs[2].name)
    /\ Len(simple[TopLevel].projects) = 1

\* C21: build_index writes no directory and no page for a project whose
\* resolved directory is not under the simple root, and raises when the
\* list has such a project.
C21_EmitterRefusesTraversal ==
    ipc # "idle" =>
        /\ \A d \in DetailPages : is_relative_to(ProjectDir(d), SimpleDir)
        /\ ipc = "raised" <=>
              \E k \in 1..Len(i_pkgs) :
                  ~is_relative_to(ProjectDir(canonicalize_name(i_pkgs[k].name)),
                                  SimpleDir)

\* build_index has raised for an absolute name after writing the page of the
\* project before it.
C21_Witness ==
    /\ ipc = "raised"
    /\ Len(i_pkgs) = 2
    /\ i_pkgs[2].name = <<"/", "e">>
    /\ DetailPages = {Projects[2]}

(***************************************************************************)
(* Properties of PyPIClient.                                               *)
(***************************************************************************)
\* The HTTP requests in flight.
InFlight == { i \in DOMAIN fetches : fetches[i].pc = "request" }

\* C22: at every moment the number of requests in flight, of fetch_release
\* and fetch_dependencies together, is at most the client's concurrency.
C22_BoundedClientConcurrency == Cardinality(InFlight) <= c_concurrency

\* The cap is reached while a fetch of the same gather waits for a permit.
C22_Witness ==
    /\ Cardinality(InFlight) = c_concurrency
    /\ \E i \in DOMAIN fetches : fetches[i].pc = "start"
    /\ cpc = "dependencies"

(***************************************************************************)
(* Properties of the server.                                               *)
(***************************************************************************)
\* The filename of the last request as the handler reads it: the path with
\* %2F decoded and the trailing "/" taken off, after "/files/".
RequestFilenames ==
    LET path == rstrip(unquote(s_path))
    IN  { f \in { rstrip(unquote(n)) : n \in RequestedNames } :
            f # <<>> /\ path = FilesRoute \o f }

\* C23: a request GET /files/{filename} whose filename does not end in .whl
\* is answered 400 with no file bytes, whether or not the file exists.
C23_WheelOnlyServing ==
    \A f \in RequestFilenames :
        (Len(f) < 4 \/ SubSeq(f, Len(f) - 3, Len(f)) # <<".", "w", "h", "l">>)
            => s_response = [status |-> 400, body |-> {}]

\* A tarball that is in files/ has been requested and refused.
C23_Witness ==
    /\ s_path = FilesRoute \o <<"a", ".", "g", "z">>
    /\ ServerFilesDir \o <<"/", "a", ".", "g", "z">> \in DOMAIN s_fs
    /\ s_response.status = 400

\* The path of files_dir / filename, resolved, is inside the files root.
InsideFilesRoot(f) ==
    LET parts == Normalize(IF f[1] = "/" THEN Parts(f)
                           ELSE Parts(ServerFilesDir) \o Parts(f), <<>>)
    IN  is_relative_to(parts, Parts(ServerFilesDir))

\* C24: a request GET /files/{filename} whose resolved path is not inside
\* the files root, a sibling directory whose name starts with the name of
\* the files root included, is answered 400 and no bytes of a file outside
\* the files root are sent.
C24_FilesRootConfinement ==
    \A f \in RequestFilenames :
        ~InsideFilesRoot(f) => s_response = [status |-> 400, body |-> {}]

(***************************************************************************)
(* Properties of the tag engine.                                           *)
(***************************************************************************)
\* The decimal numeral of a number below 100.
Numeral(k) ==
    IF k < 10 THEN <<Digits[k + 1]>>
    ELSE <<Digits[(k \div 10) + 1], Digits[(k % 10) + 1]>>

\* The major and minor numbers of the target versions.
VersionNumbers ==
    { [M |-> M, m |-> m] : M \in 2..3, m \in 0..12 }

\* C25: matches_python is true exactly when some python tag is cpMm, pyM or
\* pyMm, or is py3 or cp3 and M = 3, or M = 3 and some ABI tag is abi3 and
\* some python tag is cp3k with k <= m; so it is false for a major-2 target
\* of a wheel tagged only for Python 3.
C25_RuntimeCompatibility ==
    \A result \in t_matches_python :
        \A v \in VersionNumbers :
            t_python_version = Numeral(v.M) \o <<".">> \o Numeral(v.m) =>
                LET tags == Range(t_wheel.python_tags)
                    Mm == Numeral(v.M) \o Numeral(v.m)
                IN  result <=>
                       \/ <<"c", "p">> \o Mm \in tags
                       \/ <<"p", "y">> \o Numeral(v.M) \in tags
                       \/ <<"p", "y">> \o Mm \in tags
                       \/ v.M = 3 /\ (<<"p", "y", "3">> \in tags
                                         \/ <<"c", "p", "3">> \in tags)
                       \/ /\ v.M = 3
                          /\ <<"a", "b", "i", "3">> \in Range(t_wheel.abi_tags)
                          /\ \E k \in 0..v.m : <<"c", "p", "3">> \o Numeral(k) \in tags

\* C26: matches_platform is true exactly when "any" is among the platform
\* tags of the wheel, or some tag equals the target, or the target is
\* linux_{arch} and some tag begins with manylinux or musllinux and ends in
\* _{arch}.
C26_PlatformCompatibility ==
    \A result \in t_matches_platform :
        LET tags == Range(t_wheel.platform_tags)
            linux == <<"l", "i", "n", "u", "x", "_">>
        IN  result <=>
               \/ <<"a", "n", "y">> \in tags
               \/ t_platform \in tags
               \/ /\ StartsWith(t_platform, linux)
                  /\ \E tag \in tags :
                        /\ \/ StartsWith(tag, <<"m", "a", "n", "y", "l", "i", "n", "u", "x">>)
                           \/ StartsWith(tag, <<"m", "u", "s", "l", "l", "i", "n", "u", "x">>)
                        /\ EndsWith(tag, <<"_">> \o SubSeq(t_platform, 7, Len(t_platform)))

(***************************************************************************)
(* Properties of _dep_reachable.                                           *)
(***************************************************************************)
\* What the evaluator answers for the marker on one target, a runtime
\* version and a platform tag: "true", "false", or "raise".
OnTarget(marker, pyver, plat) ==
    LET windows == plat = "win_amd64"
        old == pyver = "3.11"
    IN  CASE marker = "win32" -> IF windows THEN "true" ELSE "false"
          [] marker = "darwin" ->
                IF plat = "macosx_11_0_arm64" THEN "true" ELSE "false"
          [] marker = "python_version < '3.12'" -> IF old THEN "true" ELSE "false"
          [] marker = "sys_platform == 'win32' and python_version < '3.12'" ->
                IF windows /\ old THEN "true" ELSE "false"
          [] marker = "os_name == 'nt'" -> IF windows THEN "true" ELSE "false"
          [] marker = "raises" -> "raise"
          [] marker = "raises on nt" -> IF windows THEN "raise" ELSE "false"

\* C27: a dependency is reachable exactly when it has no marker, or its
\* marker is true on at least one pair of a target runtime version and a
\* target platform, or the evaluator raises on some pair; it is unreachable
\* when the marker is false, without exception, on every pair.
C27_MarkerReachability ==
    \A result \in m_reachable :
        LET pairs == Range(m_python_versions) \X Range(m_platforms)
        IN  /\ result <=>
                  \/ m_marker = "none"
                  \/ \E t \in pairs : OnTarget(m_marker, t[1], t[2]) = "true"
                  \/ \E t \in pairs : OnTarget(m_marker, t[1], t[2]) = "raise"
            /\ (m_marker # "none"
                  /\ \A t \in pairs : OnTarget(m_marker, t[1], t[2]) = "false")
                  => ~result

\* The evaluator has raised on one target and answered false on the others,
\* and the dependency is reachable.
C27_Witness ==
    /\ m_reachable = {TRUE}
    /\ m_marker = "raises on nt"
    /\ Len(m_platforms) = 2
    /\ m_platforms[1] = "linux_x86_64"

(***************************************************************************)
(* Properties of cli.build.                                                *)
(***************************************************************************)
\* C28: wheels and index files are written into a staging tree only, and
\* the mirror directory changes only by the swap that puts the whole staged
\* tree in its place; nothing is downloaded or written into it directly.
C28_NeverEditedInPlace ==
    [][mirror' # mirror => staging.exists /\ mirror' = staging]_vars

(***************************************************************************)
(* Properties of run_update, continued.                                    *)
(***************************************************************************)
\* The filenames that have an entry in some project-detail page of a tree.
IndexedFilenames(tree) ==
    { e.filename : e \in UNION { Range(tree.simple[d].files) :
                                   d \in DOMAIN tree.simple \ {TopLevel} } }

\* The wheels of the pre-update mirror that the fresh closure does not
\* download.
OldWheels ==
    { f \in DOMAIN pre_mirror.files :
        \A n \in DOMAIN u_resolved :
            u_resolved[n].needs_wheels =>
                \A i \in 1..Len(u_resolved[n].wheels) :
                    u_resolved[n].wheels[i].filename # f }

\* C29 as stated: after a successful run_update every wheel file of the
\* pre-update mirror that is not a wheel of a needs_wheels package of the
\* fresh closure has an entry in some project-detail page of the mirror,
\* filenames the wheel pattern does not parse included.
C29_PreservedWheelsIndexed ==
    upc = "done" => \A f \in OldWheels : f \in IndexedFilenames(mirror)

\* C29 as amended: ... every such filename that the wheel pattern parses.
C29_PreservedWheelsIndexedAmended ==
    upc = "done" =>
        \A f \in OldWheels :
            (f.dist # <<>> /\ f.ver # <<>> /\ f.ver[1] \in {"0", "1", "2"})
                => f \in IndexedFilenames(mirror)

\* A run has ended with an old wheel indexed whose package is metadata-only
\* in the fresh closure, and with an old wheel of another version indexed.
C29_Witness ==
    /\ upc = "done"
    /\ \E f \in OldWheels :
          /\ f \in IndexedFilenames(mirror)
          /\ \E n \in DOMAIN u_resolved :
                /\ ~u_resolved[n].needs_wheels
                /\ u_resolved[n].wheels[1].filename = f
    /\ \E f \in OldWheels :
          /\ f \in IndexedFilenames(mirror)
          /\ \A n \in DOMAIN u_resolved : u_resolved[n].wheels[1].filename # f

\* The steps of the running update that have completed, by its position.
Staged == upc \in {"archive", "diff", "write", "apply", "rmtree", "copytree", "done"}
Archived == upc \in {"diff", "write", "apply", "rmtree", "copytree", "done"}
Diffed == upc \in {"write", "apply", "rmtree", "copytree", "done"}
Written == upc \in {"apply", "rmtree", "copytree", "done"}

HoldingSem == { i \in DOMAIN task : task[i].pc \in {"slot", "request", "stream", "finally"} }
HoldingSlot == { i \in DOMAIN task : task[i].pc \in {"request", "stream", "finally"} }

\* C31: at every moment of download_wheels at most `concurrency` downloads
\* are between acquiring and releasing the semaphore, no two of them hold
\* the same progress slot index, and a download that holds the semaphore
\* and has not yet taken its slot finds the slot queue non-empty.
C31_BoundedDownloadPool ==
    /\ Cardinality(HoldingSem) <= concurrency
    /\ \A i, j \in HoldingSlot : i # j => task[i].slot # task[j].slot
    /\ \A i \in HoldingSlot : task[i].slot \in 0..(concurrency - 1)
    /\ \A i \in HoldingSem \ HoldingSlot : slot_queue # <<>>

\* More downloads than permits are pending, all permits are taken, and a
\* download that entered after another one finished is about to take the
\* slot that one returned.
C31_Witness ==
    /\ Len(pending) > concurrency
    /\ Cardinality(HoldingSem) = concurrency
    /\ \E i \in DOMAIN task : task[i].pc = "finished"
    /\ \E i \in DOMAIN task : task[i].pc = "slot"

\* The number of times a canonical name is asked for: by the wishlist and
\* by the requirements fetch_dependencies has returned.
Asked(canonical) ==
    Cardinality({ i \in 1..Len(packages) : canonicalize_name(packages[i]) = canonical })
    + Cardinality({ pi \in { <<p, i>> : p \in DOMAIN requires_dist, i \in 1..MaxDeps } :
                      /\ pi[2] <= Len(requires_dist[pi[1]])
                      /\ canonicalize_name(requires_dist[pi[1]][pi[2]].name) = canonical })

\* C32: resolve() issues fetch_release only for a canonical name that is
\* neither a key of resolved nor a member of in_flight, the names of one
\* batch are distinct, and a release is recorded only for a name that is
\* not yet a key of resolved (so each name is recorded, and its release
\* fetched successfully, at most once in a run).
C32_NoRefetch ==
    /\ [][Len(batch') > Len(batch) =>
            LET canonical == batch'[Len(batch')].name
            IN  canonical \notin DOMAIN resolved /\ canonical \notin in_flight]_vars
    /\ [](\A i, j \in 1..Len(batch) : i # j => batch[i].name # batch[j].name)
    /\ [][Len(dep_meta') > Len(dep_meta) =>
            dep_meta'[Len(dep_meta')].name \notin DOMAIN resolved]_vars

\* resolve() has returned, and a name of the closure was asked for more
\* than once.
C32_Witness ==
    /\ rpc = "done"
    /\ \E canonical \in DOMAIN resolved : Asked(canonical) >= 2

\* The requirements on a canonical name that fetch_dependencies has returned.
RequirementsOn(canonical) ==
    { req \in UNION { Range(requires_dist[p]) : p \in DOMAIN requires_dist } :
        canonicalize_name(req.name) = canonical }

\* C33: once a ResolvedPackage has been recorded for a canonical name, its
\* name and version (and so its release) never change for the rest of the
\* run; a later requirement on the name, whatever its pin, changes at most
\* needs_wheels, and only from false to true.
C33_FirstVersionWins ==
    [][\A canonical \in DOMAIN resolved :
          /\ canonical \in DOMAIN resolved'
          /\ resolved'[canonical].name = resolved[canonical].name
          /\ resolved'[canonical].version = resolved[canonical].version
          /\ resolved'[canonical] # resolved[canonical] =>
                ~resolved[canonical].needs_wheels /\ resolved'[canonical].needs_wheels]_vars

\* resolve() has returned with a package recorded at one version while a
\* requirement pins its name to another, or asks for it with no pin while
\* it is recorded at a version that is not the latest.
C33_Witness ==
    /\ rpc = "done"
    /\ \E canonical \in DOMAIN resolved :
          /\ \E req \in RequirementsOn(canonical) :
                _extract_pin(req) # None /\ _extract_pin(req) # resolved[canonical].version
          /\ \E req \in RequirementsOn(canonical) : _extract_pin(req) = None

\* The wheels of the packages of a project, with the position of their
\* package in the list handed to build_index.
ProjectWheels(d) ==
    { kw \in WheelsOf(TRUE) \cup WheelsOf(FALSE) :
        canonicalize_name(i_pkgs[kw[1]].name) = d }

\* C34: in every project-detail page build_index writes, the entries are in
\* strictly ascending order of filename (sorted, no filename twice), and the
\* entries of a filename that several packages of the project carry are the
\* ones built from its first occurrence in input order.
C34_ProjectDetailFileList ==
    \A d \in DOMAIN simple \ {TopLevel} :
        /\ \A i, j \in 1..Len(simple[d].files) :
              i < j => StrLess(FilenameString(simple[d].files[i].filename),
                               FilenameString(simple[d].files[j].filename))
        /\ \A kw \in ProjectWheels(d) :
              ~Shadowed(kw) =>
                  { e \in Entries(d) : e.filename = kw[2].filename }
                      = Range(_build_file_entry(kw[2], FilesOnDisk, i_base_url,
                                                i_pkgs[kw[1]].needs_wheels))
        /\ \A e \in Entries(d) :
              \E kw \in ProjectWheels(d) : kw[2].filename = e.filename

\* A page has been written for a project two of whose packages carry a
\* wheel of the same filename from which different entries are built.
C34_Witness ==
    /\ ipc = "built"
    /\ \E d \in DOMAIN simple \ {TopLevel} :
          /\ Len(simple[d].files) >= 1
          /\ \E kw, lw \in ProjectWheels(d) :
                /\ kw[1] < lw[1]
                /\ kw[2].filename = lw[2].filename
                /\ _build_file_entry(kw[2], FilesOnDisk, i_base_url,
                                     i_pkgs[kw[1]].needs_wheels) # <<>>
                /\ _build_file_entry(lw[2], FilesOnDisk, i_base_url,
                                     i_pkgs[lw[1]].needs_wheels) # <<>>
                /\ _build_file_entry(kw[2], FilesOnDisk, i_base_url,
                                     i_pkgs[kw[1]].needs_wheels)
                     # _build_file_entry(lw[2], FilesOnDisk, i_base_url,
                                        i_pkgs[lw[1]].needs_wheels)

\* The wheel filenames under files/ of a tree and the index paths under its
\* simple/; a directory that does not exist holds none.
FilesIn(tree) == IF tree.exists THEN DOMAIN tree.files ELSE {}
IndexPathsIn(tree) == IF tree.exists THEN DOMAIN tree.simple ELSE {}

\* C35: right after compute_diff has been called on the mirror and the
\* staging tree, the diff holds the wheel filenames only staging has,
\* the wheel filenames only the mirror has, the index paths only staging
\* has, and the index paths of both whose SHA-256 differ; added and removed
\* wheels are disjoint, added and changed index paths are disjoint, and
\* when the two trees are equal the four sets are empty.
C35_DiffSets ==
    upc = "write" =>
        /\ diff.added_wheels = FilesIn(staging) \ FilesIn(mirror)
        /\ diff.removed_wheels = FilesIn(mirror) \ FilesIn(staging)
        /\ diff.added_index = IndexPathsIn(staging) \ IndexPathsIn(mirror)
        /\ diff.changed_index =
              { d \in IndexPathsIn(mirror) \cap IndexPathsIn(staging) :
                  Sha256(mirror.simple[d]) # Sha256(staging.simple[d]) }
        /\ diff.added_wheels \cap diff.removed_wheels = {}
        /\ diff.added_index \cap diff.changed_index = {}
        /\ mirror = staging =>
              /\ diff.added_wheels = {} /\ diff.removed_wheels = {}
              /\ diff.added_index = {} /\ diff.changed_index = {}

\* compute_diff has returned on two trees that share an index path with
\* different content and one with the same content, with a wheel and an
\* index path added and a wheel removed.
C35_Witness ==
    /\ upc = "write"
    /\ mirror.exists
    /\ diff.added_wheels # {}
    /\ diff.removed_wheels # {}
    /\ diff.added_index # {}
    /\ diff.changed_index # {}
    /\ \E d \in IndexPathsIn(mirror) \cap IndexPathsIn(staging) :
          d \notin diff.changed_index

\* C36: the files/ of the diff package write_diff_package has written holds
\* exactly the wheels of added_wheels, with the bytes of the new tree, and
\* its simple/ exactly the index files of added_index and changed_index,
\* with the content of the new tree; an index file that is the same in both
\* trees is not in the package.
C36_MinimalDiffPackage ==
    upc = "apply" =>
        LET package == diffs[timestamp]
        IN  /\ DOMAIN package.files = diff.added_wheels
            /\ \A f \in DOMAIN package.files : package.files[f] = staging.files[f]
            /\ DOMAIN package.simple = diff.added_index \cup diff.changed_index
            /\ \A d \in DOMAIN package.simple : package.simple[d] = staging.simple[d]
            /\ \A d \in IndexPathsIn(mirror) \cap IndexPathsIn(staging) :
                  mirror.simple[d] = staging.simple[d] => d \notin DOMAIN package.simple

\* The packages of the closure with needs_wheels = true that have a
\* requirement on the name with no marker or a marker reachable on some
\* target, and all the packages of the closure with a requirement on it.
ServingParents(canonical) ==
    { p \in DOMAIN resolved :
        /\ resolved[p].needs_wheels
        /\ \E req \in ReqsOf(p) :
              canonicalize_name(req.name) = canonical /\ Reachable(req) }

Parents(canonical) ==
    { p \in DOMAIN resolved :
        \E req \in ReqsOf(p) : canonicalize_name(req.name) = canonical }

\* C37: when resolve() has terminated, a package with needs_wheels = true
\* is a wishlist root or has a needs_wheels = true package of the closure
\* with a marker-free or target-reachable requirement on it, and it is
\* reachable from a root along such requirements; so a package reached only
\* through unreachable markers or metadata-only parents has needs_wheels =
\* false.
C37_ClassificationSound ==
    rpc = "done" =>
        \A canonical \in DOMAIN resolved :
            resolved[canonical].needs_wheels =>
                /\ canonical \in Roots \/ ServingParents(canonical) # {}
                /\ canonical \in TargetServing(Roots)

\* resolve() has returned a closure with a metadata-only package that a
\* needs_wheels = true package requires under a marker no target satisfies,
\* and a metadata-only package that a metadata-only package requires with
\* no marker.
C37_Witness ==
    /\ rpc = "done"
    /\ \E canonical \in DOMAIN resolved \ Roots :
          /\ ~resolved[canonical].needs_wheels
          /\ \E p \in Parents(canonical) : resolved[p].needs_wheels
    /\ \E canonical \in DOMAIN resolved \ Roots :
          /\ ~resolved[canonical].needs_wheels
          /\ \E p \in Parents(canonical) :
                /\ ~resolved[p].needs_wheels
                /\ \E req \in ReqsOf(p) :
                      canonicalize_name(req.name) = canonical /\ req.marker = NoMarker
    /\ \E canonical \in DOMAIN resolved \ Roots : resolved[canonical].needs_wheels

\* C38: under fair scheduling every pending download of a download_wheels
\* call finishes, whether it was stored, rejected for its hash or failed;
\* download_wheels returns; and when it has returned every permit of the
\* semaphore and every progress slot is back.
C38_DownloadPhaseLiveness ==
    /\ \A i \in 1..(concurrency + 1) :
          (dpc = "gather" /\ i \in DOMAIN task) ~>
              (i \in DOMAIN task /\ task[i].pc = "finished")
    /\ (dpc = "gather") ~> (dpc = "done")
    /\ [](dpc = "done" =>
            /\ sem = concurrency
            /\ Range(slot_queue) = 0..(concurrency - 1)
            /\ Len(slot_queue) = concurrency
            /\ \A i \in DOMAIN task : task[i].pc = "finished")

\* download_wheels has returned from a call in which one download was
\* stored, one was rejected for its hash and one failed.
C38_Witness ==
    /\ dpc = "done"
    /\ Len(pending) > concurrency
    /\ { task[i].outcome : i \in DOMAIN task } = {"stored", "mismatch", "error"}

\* A run of run_update has completed after a completed run that resolved
\* the same closure and stored every wheel it selected.
SecondOfTwoEqualRuns ==
    /\ upc = "done"
    /\ prev_resolved = {u_resolved}
    /\ pre_mirror.exists
    /\ SelectedWheels(u_resolved) \subseteq DOMAIN pre_mirror.files

\* C39: when run_update has completed twice in succession with the same
\* closure and the first run stored every selected wheel, the diff of the
\* second run has no added or removed wheel and no added or changed index
\* file, and the mirror after the second run is the mirror after the first.
C39_UpdateIdempotent ==
    SecondOfTwoEqualRuns =>
        /\ diff.added_wheels = {} /\ diff.removed_wheels = {}
        /\ diff.changed_index = {} /\ diff.added_index = {}
        /\ mirror = pre_mirror

\* Two such runs on a closure with a package that needs wheels and a
\* metadata-only package.
C39_Witness ==
    /\ SecondOfTwoEqualRuns
    /\ \E n \in DOMAIN u_resolved : u_resolved[n].needs_wheels
    /\ \E n \in DOMAIN u_resolved : ~u_resolved[n].needs_wheels
    /\ DOMAIN mirror.files # {}
=============================================================================
